---- MODULE Spec2Model ----
(***************************************************************************)
(* A model of text_extensions_for_pandas: the CharSpan value type, the     *)
(* CharSpanArray container (array/char_span.py) with its version counter,  *)
(* equivalence cache and memoized fields, and the span algebra functions   *)
(* (algebra.py).                                                           *)
(*                                                                         *)
(* Python objects live in `heap` (the index of a slot is the object's      *)
(* id()); numpy buffers live in `mem`, and an ndarray is a view            *)
(* [base, off, n] of one buffer.  `call` holds the arguments of a pending  *)
(* call of a pure function and `ret` what the last operation returned or   *)
(* raised.                                                                 *)
(***************************************************************************)
EXTENDS Integers, Sequences, FiniteSets, TLC

VARIABLES heap, mem, call, ret

vars == <<heap, mem, call, ret>>

(***************************************************************************)
(* Bounds of the model.                                                    *)
(***************************************************************************)
\* set_item / increment_version calls explored per array
MaxVersion == 2

\* offsets handed to the constructors range over -2..MaxOffset
MaxOffset == 4

\* rows of a span series handed to adjacent_join and combine_spans
MaxRows == 2

\* gaps handed to adjacent_join range over 0..MaxGap
MaxGap == 2

\* tokens of a tokenized text
MaxTokens == 3

(***************************************************************************)
(* Python values.                                                          *)
(***************************************************************************)
NULL_OFFSET_VALUE == -1

None == [kind |-> "None"]

Bool(b) == [kind |-> "bool", v |-> b]

\* a str, as a sequence of characters
Str(s) == [kind |-> "str", v |-> s]

\* a value that is neither None nor a CharSpan
OtherObject == Str(<<"x">>)

\* target texts: sequences of characters
TextAb == <<"A", "b">>

TextAbC == <<"A", "b", "C">>

Texts == {TextAb, TextAbC}

\* str.lower() on one character
LowerChar(c) ==
    CASE c = "A" -> "a"
      [] c = "B" -> "b"
      [] c = "C" -> "c"
      [] c = "H" -> "h"
      [] c = "N" -> "n"
      [] c = "Y" -> "y"
      [] OTHER -> c

Lower(s) == [i \in 1..Len(s) |-> LowerChar(s[i])]

Min(S) == CHOOSE x \in S : \A y \in S : x <= y

Max(S) == CHOOSE x \in S : \A y \in S : x >= y

\* Python's s[b:e] for a sequence s (indices clipped, negative ones count
\* from the end)
PyIndex(i, n) == IF i < 0 THEN Max({i + n, 0}) ELSE Min({i, n})

PySlice(s, b, e) ==
    LET lo == PyIndex(b, Len(s))
        hi == PyIndex(e, Len(s))
    IN  IF hi <= lo THEN <<>> ELSE SubSeq(s, lo + 1, hi)

(***************************************************************************)
(* CharSpan                                                                *)
(***************************************************************************)
\* CharSpan.__init__: the exception it raises, "" when it returns
CharSpanInitError(text, begin, end) ==
    IF NULL_OFFSET_VALUE = begin
    THEN IF NULL_OFFSET_VALUE # end THEN "ValueError" ELSE ""
    ELSE IF begin < 0 THEN "ValueError"
    ELSE IF end < 0 THEN "ValueError"
    ELSE IF end > Len(text) THEN "ValueError"
    ELSE ""

CharSpan(text, begin, end) ==
    [kind |-> "CharSpan", text |-> text, begin |-> begin, end |-> end]

(***************************************************************************)
(* numpy arrays: views of buffers                                          *)
(***************************************************************************)
ObjIds == 1..3

BufIds == 1..6

NoObj == [kind |-> "free"]

NdArray(base, off, n) == [base |-> base, off |-> off, n |-> n]

\* the elements of an ndarray
Elems(m, nd) == SubSeq(m[nd.base], nd.off + 1, nd.off + nd.n)

\* numpy integer indexing: the position of index key in an array of n
\* elements, -1 when it is out of range (IndexError)
NdIndex(key, n) ==
    IF 0 <= key /\ key < n THEN key
    ELSE IF key < 0 /\ key + n >= 0 THEN key + n
    ELSE -1

\* nd[pos] = v, written through to the buffer
NdStore(m, nd, pos, v) ==
    [m EXCEPT ![nd.base] = [@ EXCEPT ![nd.off + pos + 1] = v]]

(***************************************************************************)
(* CharSpanArray                                                           *)
(***************************************************************************)
\* CharSpanArray.__init__ and _shared_init, for ndarray arguments of an
\* integer dtype: the references are kept, nothing is validated
CharSpanArrayInit(text, begins, ends) ==
    [kind |-> "CharSpanArray",
     text |-> text,
     begins |-> begins,
     ends |-> ends,
     version |-> 0,
     equivalent_arrays |-> <<>>,
     equiv_array_versions |-> <<>>,
     hash |-> None,
     normalized_covered_text |-> None]

Begin(h, m, x) == Elems(m, h[x].begins)

End(h, m, x) == Elems(m, h[x].ends)

\* increment_version that forgets to advance the counter
IncrementVersionNoBump(obj) ==
    [obj EXCEPT !.equivalent_arrays = <<>>,
                !.equiv_array_versions = <<>>,
                !.hash = None]

\* increment_version that keeps the memoized hash
IncrementVersionKeepHash(obj) ==
    [obj EXCEPT !.equivalent_arrays = <<>>,
                !.equiv_array_versions = <<>>,
                !.version = @ + 1]

\* increment_version: caches dropped, counter bumped.  The value memoized by
\* normalized_covered_text is not among the fields it resets.
IncrementVersionOf(obj) ==
    [obj EXCEPT !.equivalent_arrays = <<>>,
                !.equiv_array_versions = <<>>,
                !.hash = None,
                !.version = @ + 1]

IsLive(h, x) == h[x].kind = "CharSpanArray"

Result(op, self, other, raised, value) ==
    [op |-> op, self |-> self, other |-> other, raised |-> raised,
     value |-> value]

\* the result of an operation that takes a name besides its array
NamedResult(op, self, name, raised, value) ==
    [op |-> op, self |-> self, other |-> 0, raised |-> raised,
     value |-> value, name |-> name]

NoRet == Result("", 0, 0, "", None)

NoCall == [fn |-> ""]

\* keys handed to __setitem__: an int, an ndarray of indices, another type
IntKey(i) == [kind |-> "int", v |-> i]

\* __setitem__(key, value)
SetItem(x, key, value) ==
    /\ IsLive(heap, x)
    /\ heap[x].version < MaxVersion
    /\ UNCHANGED call
    /\ LET obj == heap[x]
           posb == NdIndex(key.v, obj.begins.n)
           pose == NdIndex(key.v, obj.ends.n)
           b == IF value = None THEN NULL_OFFSET_VALUE ELSE value.begin
           e == IF value = None THEN NULL_OFFSET_VALUE ELSE value.end
       IN  IF key.kind # "int"
           THEN /\ ret' = Result("__setitem__", x, 0, "NotImplementedError", None)
                /\ UNCHANGED <<heap, mem>>
           ELSE IF value # None /\ value.kind # "CharSpan"
           THEN /\ ret' = Result("__setitem__", x, 0, "ValueError", None)
                /\ UNCHANGED <<heap, mem>>
           ELSE IF posb < 0
           THEN /\ ret' = Result("__setitem__", x, 0, "IndexError", None)
                /\ UNCHANGED <<heap, mem>>
           ELSE IF pose < 0
           THEN \* self._begins[key] is already written when self._ends[key] raises
                /\ ret' = Result("__setitem__", x, 0, "IndexError", None)
                /\ mem' = NdStore(mem, obj.begins, posb, b)
                /\ UNCHANGED heap
           ELSE /\ mem' = NdStore(NdStore(mem, obj.begins, posb, b),
                                  obj.ends, pose, e)
                /\ heap' = [heap EXCEPT ![x] = IncrementVersionOf(obj)]
                /\ ret' = Result("__setitem__", x, 0, "", None)

\* increment_version(), called by a client
IncrementVersion(x) ==
    /\ IsLive(heap, x)
    /\ heap[x].version < MaxVersion
    /\ heap' = [heap EXCEPT ![x] = IncrementVersionOf(heap[x])]
    /\ ret' = Result("increment_version", x, 0, "", None)
    /\ UNCHANGED <<mem, call>>

\* list.index: the 1-based position of v in s, 0 when v is not in s
IndexOf(s, v) ==
    IF \E i \in 1..Len(s) : s[i] = v
    THEN Min({i \in 1..Len(s) : s[i] = v})
    ELSE 0

\* del s[i]
DelAt(s, i) == [j \in 1..(Len(s) - 1) |-> IF j < i THEN s[j] ELSE s[j + 1]]

\* the slow path of equals: target text and offsets compared
ArraysDiffer(h, m, x, y) ==
    \/ h[x].text # h[y].text
    \/ Begin(h, m, x) # Begin(h, m, y)
    \/ End(h, m, x) # End(h, m, y)

\* the cached version a cache hit is compared against
CachedVersionMatches(obj, cache_ix, other_version) ==
    other_version = obj.equiv_array_versions[cache_ix]

\* equals(other)
Equals(x, y) ==
    /\ IsLive(heap, x) /\ IsLive(heap, y)
    /\ UNCHANGED <<mem, call>>
    /\ LET obj == heap[x]
           cache_ix == IndexOf(obj.equivalent_arrays, y)
       IN  IF x = y
           THEN /\ ret' = Result("equals", x, y, "", Bool(TRUE))
                /\ UNCHANGED heap
           ELSE IF cache_ix > 0
                   /\ CachedVersionMatches(obj, cache_ix, heap[y].version)
           THEN /\ ret' = Result("equals", x, y, "", Bool(TRUE))
                /\ UNCHANGED heap
           ELSE IF ArraysDiffer(heap, mem, x, y)
           THEN /\ ret' = Result("equals", x, y, "", Bool(FALSE))
                /\ heap' = IF cache_ix > 0
                           THEN [heap EXCEPT ![x] =
                                   [obj EXCEPT
                                      !.equivalent_arrays = DelAt(@, cache_ix),
                                      !.equiv_array_versions = DelAt(@, cache_ix)]]
                           ELSE heap
           ELSE /\ ret' = Result("equals", x, y, "", Bool(TRUE))
                /\ heap' = IF cache_ix > 0
                           THEN [heap EXCEPT ![x].equiv_array_versions[cache_ix] =
                                   heap[y].version]
                           ELSE [heap EXCEPT ![x] =
                                   [obj EXCEPT
                                      !.equivalent_arrays = Append(@, y),
                                      !.equiv_array_versions =
                                          Append(@, heap[y].version)]]

\* __hash__: computed from the target text and both offset arrays on the
\* first call, memoized in _hash afterwards
HashValue(h, m, x) ==
    [kind |-> "hash", v |-> <<h[x].text, Begin(h, m, x), End(h, m, x)>>]

Hash(x) ==
    /\ IsLive(heap, x)
    /\ heap' = IF heap[x].hash = None
               THEN [heap EXCEPT ![x].hash = HashValue(heap, mem, x)]
               ELSE heap
    /\ ret' = Result("__hash__", x, 0, "", heap'[x].hash)
    /\ UNCHANGED <<mem, call>>

\* what a client sees of a CharSpanArray: target text, begin and end offsets
ArrayValue(text, begins, ends) ==
    [kind |-> "CharSpanArray", text |-> text, begin |-> begins, end |-> ends]

\* __getitem__(item) with an int: the CharSpan built from the two offsets
GetItemResult(h, m, x, item) ==
    LET posb == NdIndex(item, h[x].begins.n)
        pose == NdIndex(item, h[x].ends.n)
    IN  IF posb < 0 \/ pose < 0
        THEN Result("__getitem__", x, 0, "IndexError", None)
        ELSE LET b == Begin(h, m, x)[posb + 1]
                 e == End(h, m, x)[pose + 1]
                 err == CharSpanInitError(h[x].text, b, e)
             IN  Result("__getitem__", x, 0, err,
                        IF err = "" THEN CharSpan(h[x].text, b, e) ELSE None)

\* nd[lo:hi]: a view of the same buffer
NdSlice(nd, lo, hi) ==
    LET l == PyIndex(lo, nd.n)
        u == PyIndex(hi, nd.n)
    IN  NdArray(nd.base, nd.off + l, IF u <= l THEN 0 ELSE u - l)

\* __getitem__(slice(lo, hi)): a new CharSpanArray over views of self's
\* offset arrays
SliceOf(h, x, lo, hi) ==
    CharSpanArrayInit(h[x].text, NdSlice(h[x].begins, lo, hi),
                      NdSlice(h[x].ends, lo, hi))

SliceResult(h, m, x, lo, hi) ==
    LET s == SliceOf(h, x, lo, hi)
    IN  Result("__getitem__", x, 0, "",
               ArrayValue(s.text, Elems(m, s.begins), Elems(m, s.ends)))

\* copy(): a new CharSpanArray over copies of both offset arrays
CopyResult(h, m, x) ==
    Result("copy", x, 0, "",
           ArrayValue(h[x].text, Begin(h, m, x), End(h, m, x)))

\* a concatenation that takes the first array's text without comparing
ConcatResultFirstText(h, m, x, y) ==
    Result("_concat_same_type", x, y, "",
           ArrayValue(h[x].text, Begin(h, m, x) \o Begin(h, m, y),
                      End(h, m, x) \o End(h, m, y)))

\* _concat_same_type(to_concat) for two arrays
ConcatResult(h, m, x, y) ==
    IF Cardinality({h[x].text, h[y].text}) # 1
    THEN Result("_concat_same_type", x, y, "ValueError", None)
    ELSE Result("_concat_same_type", x, y, "",
                ArrayValue(h[x].text, Begin(h, m, x) \o Begin(h, m, y),
                           End(h, m, x) \o End(h, m, y)))

\* pandas.api.extensions.take on one offset array: the exception raised
\* ("" for none)
TakeError(n, indices, allow_fill) ==
    IF allow_fill
    THEN IF \E i \in 1..Len(indices) : indices[i] < -1 THEN "ValueError"
         ELSE IF \E i \in 1..Len(indices) : indices[i] >= n THEN "IndexError"
         ELSE ""
    ELSE IF \E i \in 1..Len(indices) : NdIndex(indices[i], n) < 0
         THEN "IndexError"
         ELSE ""

TakeElems(s, indices, allow_fill, fill) ==
    [i \in 1..Len(indices) |->
        IF allow_fill /\ indices[i] = -1 THEN fill
        ELSE s[NdIndex(indices[i], Len(s)) + 1]]

\* take(indices, allow_fill, fill_value).  np.math.isnan is applied to every
\* fill value that is not None, and accepts only numbers.
TakeResult(h, m, x, indices, allow_fill, fill_value) ==
    LET isnumber == fill_value.kind \in {"nan", "float"}
        typeerr == allow_fill /\ fill_value # None /\ ~isnumber
        isnull == ~allow_fill \/ fill_value = None \/ fill_value.kind = "nan"
        valerr == ~isnull /\ fill_value.kind # "CharSpan"
        fb == IF isnull THEN NULL_OFFSET_VALUE ELSE fill_value.begin
        fe == IF isnull THEN NULL_OFFSET_VALUE ELSE fill_value.end
        errb == TakeError(h[x].begins.n, indices, allow_fill)
        erre == TakeError(h[x].ends.n, indices, allow_fill)
    IN  IF typeerr THEN Result("take", x, 0, "TypeError", None)
        ELSE IF valerr THEN Result("take", x, 0, "ValueError", None)
        ELSE IF errb # "" THEN Result("take", x, 0, errb, None)
        ELSE IF erre # "" THEN Result("take", x, 0, erre, None)
        ELSE Result("take", x, 0, "",
                    ArrayValue(h[x].text,
                               TakeElems(Begin(h, m, x), indices, allow_fill, fb),
                               TakeElems(End(h, m, x), indices, allow_fill, fe)))

Mask(s) == [kind |-> "mask", v |-> s]

\* numpy broadcasting of two one-dimensional arrays in an element-wise
\* comparison
Broadcastable(s, t) == Len(s) = Len(t) \/ Len(s) = 1 \/ Len(t) = 1

BroadcastAt(s, n, i) == IF Len(s) = n THEN s[i] ELSE s[1]

\* CharSpanArray.__lt__(other) with an array: self.end <= other.begin
LtResult(h, m, x, y) ==
    LET e == End(h, m, x)
        b == Begin(h, m, y)
        n == Max({Len(e), Len(b)})
    IN  IF ~Broadcastable(e, b)
        THEN Result("__lt__", x, y, "ValueError", None)
        ELSE Result("__lt__", x, y, "",
                    Mask([i \in 1..(IF Len(e) = 0 \/ Len(b) = 0 THEN 0 ELSE n) |->
                            BroadcastAt(e, n, i) <= BroadcastAt(b, n, i)]))

\* CharSpanArray.__eq__(other) with an array: both operands of each
\* comparison are self's
EqResult(h, m, x, y) ==
    LET b == Begin(h, m, x)
        e == End(h, m, x)
    IN  IF Len(b) # Len(Begin(h, m, y))
        THEN Result("__eq__", x, y, "ValueError", None)
        ELSE IF h[x].text # h[y].text
        THEN Result("__eq__", x, y, "", Mask([i \in 1..Len(b) |-> FALSE]))
        ELSE IF Len(b) # Len(e)
        THEN Result("__eq__", x, y, "ValueError", None)
        ELSE Result("__eq__", x, y, "",
                    Mask([i \in 1..Len(b) |-> b[i] = b[i] /\ e[i] = e[i]]))

Range(s) == {s[i] : i \in 1..Len(s)}

\* a "sum" that leaves the null elements out, as skipna would
ReduceResultSkipNulls(h, m, x, name) ==
    LET notna == {i \in 1..Len(Begin(h, m, x)) :
                    Begin(h, m, x)[i] # NULL_OFFSET_VALUE}
        b == {Begin(h, m, x)[i] : i \in notna}
        e == {End(h, m, x)[i] : i \in notna}
    IN  IF name # "sum" THEN NamedResult("_reduce", x, name, "TypeError", None)
        ELSE IF notna = {}
        THEN NamedResult("_reduce", x, name, "",
                         CharSpan(h[x].text, NULL_OFFSET_VALUE, NULL_OFFSET_VALUE))
        ELSE LET err == CharSpanInitError(h[x].text, Min(b), Max(e))
             IN  NamedResult("_reduce", x, name, err,
                        IF err = "" THEN CharSpan(h[x].text, Min(b), Max(e))
                        ELSE None)

\* _reduce(name): "sum" combines, np.min and np.max raise on an empty array
ReduceResult(h, m, x, name) ==
    LET b == Begin(h, m, x)
        e == End(h, m, x)
    IN  IF name # "sum" THEN NamedResult("_reduce", x, name, "TypeError", None)
        ELSE IF Len(b) = 0 \/ Len(e) = 0
        THEN NamedResult("_reduce", x, name, "ValueError", None)
        ELSE LET err == CharSpanInitError(h[x].text, Min(Range(b)), Max(Range(e)))
             IN  NamedResult("_reduce", x, name, err,
                        IF err = ""
                        THEN CharSpan(h[x].text, Min(Range(b)), Max(Range(e)))
                        ELSE None)

\* CharSpan.contains(other)
Contains(self, other) == other.begin >= self.begin /\ other.end <= self.end

\* covered_text: the substring of the target text each element covers, None
\* for a null element
CoveredText(h, m, x) ==
    LET b == Begin(h, m, x)
        e == End(h, m, x)
    IN  [i \in 1..Len(b) |->
            IF b[i] = NULL_OFFSET_VALUE THEN None
            ELSE Str(PySlice(h[x].text, b[i], e[i]))]

\* np.vectorize(np.char.lower)(covered_text): the exception it raises ("" for
\* none).  np.vectorize without otypes rejects an input of size 0, and
\* np.char.lower an element that is no string.
NormalizeError(covered) ==
    IF Len(covered) = 0 THEN "ValueError"
    ELSE IF \E i \in 1..Len(covered) : covered[i] = None THEN "TypeError"
    ELSE ""

Normalize(covered) ==
    [kind |-> "strs",
     v |-> [i \in 1..Len(covered) |-> Str(Lower(covered[i].v))]]

\* memoized_property: the value computed by the first read that returns is
\* kept in _normalized_covered_text and handed out by every later read
MemoizedRead(memo, computed) == IF memo = None THEN computed ELSE memo

\* normalized_covered_text
NormalizedCoveredText(x) ==
    /\ IsLive(heap, x)
    /\ UNCHANGED <<mem, call>>
    /\ LET covered == CoveredText(heap, mem, x)
           err == NormalizeError(covered)
       IN  IF heap[x].normalized_covered_text = None /\ err # ""
           THEN /\ ret' = Result("normalized_covered_text", x, 0, err, None)
                /\ UNCHANGED heap
           ELSE /\ heap' = [heap EXCEPT ![x].normalized_covered_text =
                               MemoizedRead(@, Normalize(covered))]
                /\ ret' = Result("normalized_covered_text", x, 0, "",
                                 heap'[x].normalized_covered_text)

(***************************************************************************)
(* Clients of CharSpanArray                                                *)
(***************************************************************************)
A == 1

B == 2

\* (text, begins, ends) handed to the constructor as lists of ints: arrays
\* whose elements lie within their target text
ArrayInputs ==
    { <<TextAb, <<0, 1>>, <<1, 2>>>>,
      <<TextAb, <<1, 0>>, <<2, 1>>>>,
      <<TextAb, <<0>>, <<1>>>>,
      <<TextAbC, <<0, 1>>, <<1, 2>>>> }

\* a = CharSpanArray(...), b = CharSpanArray(...): np.array(list) gives each
\* array buffers of its own
HeapInit(ia, ib) ==
    /\ heap = [i \in ObjIds |->
                 IF i = A
                 THEN CharSpanArrayInit(ia[1], NdArray(1, 0, Len(ia[2])),
                                        NdArray(2, 0, Len(ia[3])))
                 ELSE IF i = B
                 THEN CharSpanArrayInit(ib[1], NdArray(3, 0, Len(ib[2])),
                                        NdArray(4, 0, Len(ib[3])))
                 ELSE NoObj]
    /\ mem = [k \in BufIds |->
                 CASE k = 1 -> ia[2]
                   [] k = 2 -> ia[3]
                   [] k = 3 -> ib[2]
                   [] k = 4 -> ib[3]
                   [] OTHER -> <<>>]

SetKeys == {IntKey(0), IntKey(1), IntKey(-1), IntKey(2), [kind |-> "ndarray"]}

SetValues == {None, CharSpan(TextAb, 0, 1), CharSpan(TextAb, 1, 2), OtherObject}

\* two arrays a and b, changed by set_item and compared by equals
Init ==
    /\ \E ia \in ArrayInputs, ib \in ArrayInputs : HeapInit(ia, ib)
    /\ call = NoCall
    /\ ret = NoRet

Next ==
    \/ \E x \in {A, B}, key \in SetKeys, value \in SetValues :
          SetItem(x, key, value)
    \/ \E x \in {A, B}, y \in {A, B} : Equals(x, y)

Spec == Init /\ [][Next]_vars

(***************************************************************************)
(* The operations that read an array and hand back a new value             *)
(***************************************************************************)
\* an operation that hands back its result and bumps the version of the
\* array A
ReturnsAndBumps(result) ==
    /\ ret' = result
    /\ heap' = [heap EXCEPT ![A] = IF IsLive(heap, A)
                                   THEN IncrementVersionOf(@) ELSE @]
    /\ UNCHANGED <<mem, call>>

Returns(result) ==
    /\ ret' = result
    /\ UNCHANGED <<heap, mem, call>>

GetItem(x, item) == IsLive(heap, x) /\ Returns(GetItemResult(heap, mem, x, item))

Slice(x, lo, hi) == IsLive(heap, x) /\ Returns(SliceResult(heap, mem, x, lo, hi))

Copy(x) == IsLive(heap, x) /\ Returns(CopyResult(heap, mem, x))

Concat(x, y) ==
    IsLive(heap, x) /\ IsLive(heap, y) /\ Returns(ConcatResult(heap, mem, x, y))

Take(x, indices, allow_fill, fill_value) ==
    IsLive(heap, x)
    /\ Returns(TakeResult(heap, mem, x, indices, allow_fill, fill_value))

Lt(x, y) == IsLive(heap, x) /\ IsLive(heap, y) /\ Returns(LtResult(heap, mem, x, y))

Eq(x, y) == IsLive(heap, x) /\ IsLive(heap, y) /\ Returns(EqResult(heap, mem, x, y))

Reduce(x, name) == IsLive(heap, x) /\ Returns(ReduceResult(heap, mem, x, name))

TakeIndices == {<<1, 0>>, <<-1, 0>>}

FillValues == {None, [kind |-> "nan"], CharSpan(TextAb, 0, 2)}

\* the arrays b that a is compared and concatenated with
PartnerInputs ==
    { <<TextAb, <<0, 1>>, <<1, 2>>>>,
      <<TextAbC, <<0, 1>>, <<1, 2>>>> }

InitOps ==
    /\ \E ia \in ArrayInputs, ib \in PartnerInputs : HeapInit(ia, ib)
    /\ call = NoCall
    /\ ret = NoRet

\* array a is changed by set_item and increment_version while every other
\* operation of the container runs on a and b
NextOps ==
    \/ \E key \in SetKeys, value \in SetValues : SetItem(A, key, value)
    \/ IncrementVersion(A)
    \/ \E x \in {A, B}, y \in {A, B} : Equals(x, y)
    \/ \E x \in {A, B} : Hash(x)
    \/ \E x \in {A, B}, item \in 0..2 : GetItem(x, item)
    \/ \E x \in {A, B}, lo \in 0..1, hi \in 1..2 : Slice(x, lo, hi)
    \/ \E x \in {A, B} : Copy(x)
    \/ \E x \in {A, B}, y \in {A, B} : Concat(x, y)
    \/ \E x \in {A, B}, indices \in TakeIndices, allow_fill \in BOOLEAN,
          fill_value \in FillValues : Take(x, indices, allow_fill, fill_value)
    \/ \E x \in {A, B}, y \in {A, B} : Lt(x, y)
    \/ \E x \in {A, B}, y \in {A, B} : Eq(x, y)
    \/ \E x \in {A, B}, name \in {"sum", "min"} : Reduce(x, name)

SpecOps == InitOps /\ [][NextOps]_vars

\* one array, its elements replaced by set_item between reads of
\* normalized_covered_text
InitNorm ==
    /\ \E ia \in ArrayInputs : HeapInit(ia, ia)
    /\ call = NoCall
    /\ ret = NoRet

NextNorm ==
    \/ \E key \in SetKeys, value \in SetValues : SetItem(A, key, value)
    \/ NormalizedCoveredText(A)

SpecNorm == InitNorm /\ [][NextNorm]_vars

(***************************************************************************)
(* Construction of a CharSpan and of a CharSpanArray from client arguments *)
(***************************************************************************)
Offsets == (-2)..MaxOffset

\* CharSpan(text, begin, end), the call pending
InitSpan ==
    /\ \E text \in Texts, begin \in Offsets, end \in Offsets :
          call = [fn |-> "CharSpan", text |-> text, begin |-> begin, end |-> end]
    /\ heap = [i \in ObjIds |-> NoObj]
    /\ mem = [k \in BufIds |-> <<>>]
    /\ ret = NoRet

NewCharSpan ==
    /\ call.fn = "CharSpan"
    /\ ret = NoRet
    /\ LET err == CharSpanInitError(call.text, call.begin, call.end)
       IN  ret' = Result("CharSpan", 0, 0, err,
                         IF err = "" THEN CharSpan(call.text, call.begin, call.end)
                         ELSE None)
    /\ UNCHANGED <<heap, mem, call>>

NextSpan == NewCharSpan

SpecSpan == InitSpan /\ [][NextSpan]_vars

\* an argument of CharSpanArray(text, begins, ends): its Python type, the
\* type of its elements and the elements
SeqArg(type, dtype, v) == [type |-> type, dtype |-> dtype, v |-> v]

\* the dtype of np.array(arg): an empty list converts to float64
ArrayDtype(arg) ==
    IF arg.type = "list" /\ Len(arg.v) = 0 THEN "float64"
    ELSE IF arg.dtype = "int" THEN "int64"
    ELSE "float64"

\* CharSpanArray.__init__: the exception it raises, "" when it returns.  The
\* checks are on the type of each argument and on its dtype.
CharSpanArrayInitError(text, begins, ends) ==
    IF begins.type \notin {"Series", "ndarray", "list"} THEN "TypeError"
    ELSE IF ends.type \notin {"Series", "ndarray", "list"} THEN "TypeError"
    ELSE IF ArrayDtype(begins) # "int64" THEN "TypeError"
    ELSE IF ArrayDtype(ends) # "int64" THEN "TypeError"
    ELSE ""

\* offsets tried as array elements: the null value, offsets inside TextAb and
\* offsets outside it
CtorOffsets == {NULL_OFFSET_VALUE, 0, 1, 3}

CtorSeqs == {<<>>} \cup {<<p>> : p \in CtorOffsets}
               \cup {<<p, q>> : p \in CtorOffsets, q \in CtorOffsets}

CtorArgs ==
    {SeqArg("list", "int", v) : v \in CtorSeqs}
        \cup {SeqArg("list", "float", <<0, 1>>), SeqArg("tuple", "int", <<0, 1>>),
              SeqArg("ndarray", "int", <<0, 1>>), SeqArg("ndarray", "float", <<0, 1>>)}

\* CharSpanArray(text, begins, ends), the call pending
InitCtor ==
    /\ \E begins \in CtorArgs, ends \in CtorArgs :
          call = [fn |-> "CharSpanArray", text |-> TextAb,
                  begins |-> begins, ends |-> ends]
    /\ heap = [i \in ObjIds |-> NoObj]
    /\ mem = [k \in BufIds |-> <<>>]
    /\ ret = NoRet

\* a = CharSpanArray(text, begins, ends)
NewCharSpanArray ==
    /\ call.fn = "CharSpanArray"
    /\ ret = NoRet
    /\ UNCHANGED call
    /\ LET err == CharSpanArrayInitError(call.text, call.begins, call.ends)
       IN  IF err # ""
           THEN /\ ret' = Result("CharSpanArray", 0, 0, err, None)
                /\ UNCHANGED <<heap, mem>>
           ELSE /\ mem' = [mem EXCEPT ![1] = call.begins.v, ![2] = call.ends.v]
                /\ heap' = [heap EXCEPT ![A] =
                              CharSpanArrayInit(call.text,
                                                NdArray(1, 0, Len(call.begins.v)),
                                                NdArray(2, 0, Len(call.ends.v)))]
                /\ ret' = Result("CharSpanArray", A, 0, "", None)

NextCtor == NewCharSpanArray

SpecCtor == InitCtor /\ [][NextCtor]_vars

(***************************************************************************)
(* algebra.py: adjacent_join                                               *)
(***************************************************************************)
\* a row of a TokenSpanArray: the token offsets of one span
TokenSpan(begin_token, end_token) ==
    [begin_token |-> begin_token, end_token |-> end_token]

RECURSIVE ConcatAll(_)
\* np.concatenate / pd.concat of a list of sequences
ConcatAll(seqs) ==
    IF Len(seqs) = 0 THEN <<>> ELSE Head(seqs) \o ConcatAll(Tail(seqs))

\* the frame [outer_span, outer_end] of the first series
OuterFrame(first_series) ==
    [i \in 1..Len(first_series) |->
        [outer_span |-> i, outer_end |-> first_series[i].end_token]]

\* the expected end token without the gap added
ExpectedOuterEndNoGap(begin_token, gap) == begin_token

\* the value a first span's end token is joined with, for one gap
ExpectedOuterEnd(begin_token, gap) == begin_token + gap

\* the frame [inner_span, outer_end]: the second series once per gap of
\* range(min_gap, max_gap + 1)
InnerFrame(second_series, min_gap, max_gap) ==
    ConcatAll([g \in 1..(max_gap - min_gap + 1) |->
                 [j \in 1..Len(second_series) |->
                     [inner_span |-> j,
                      outer_end |-> ExpectedOuterEnd(second_series[j].begin_token,
                                                     min_gap + g - 1)]]])

\* outer.merge(inner): the inner join on the shared column outer_end, in the
\* order of the outer rows
Merge(outer, inner) ==
    ConcatAll([i \in 1..Len(outer) |->
                 LET hits == SelectSeq(inner,
                                 LAMBDA r : r.outer_end = outer[i].outer_end)
                 IN  [k \in 1..Len(hits) |->
                         [first |-> outer[i].outer_span,
                          second |-> hits[k].inner_span]]])

\* adjacent_join(first_series, second_series, min_gap, max_gap): rows name the
\* joined spans by their positions in the two series.  pd.concat of an empty
\* list of replicas raises.
AdjacentJoinResult(first_series, second_series, min_gap, max_gap) ==
    IF max_gap - min_gap + 1 <= 0
    THEN Result("adjacent_join", 0, 0, "ValueError", None)
    ELSE Result("adjacent_join", 0, 0, "",
                [kind |-> "DataFrame",
                 rows |-> Merge(OuterFrame(first_series),
                                InnerFrame(second_series, min_gap, max_gap))])

\* the series of 1 to n rows over the spans S
SeriesUpTo(S, n) == UNION {[1..k -> S] : k \in 1..n}

InitJoin ==
    /\ \E first \in SeriesUpTo({TokenSpan(0, 1), TokenSpan(1, 2), TokenSpan(0, 2)},
                               MaxRows),
          second \in SeriesUpTo({TokenSpan(2, 3), TokenSpan(1, 3), TokenSpan(3, 4)},
                                MaxRows),
          min_gap \in 0..MaxGap, max_gap \in 0..MaxGap :
          call = [fn |-> "adjacent_join", first_series |-> first,
                  second_series |-> second, min_gap |-> min_gap,
                  max_gap |-> max_gap]
    /\ heap = [i \in ObjIds |-> NoObj]
    /\ mem = [k \in BufIds |-> <<>>]
    /\ ret = NoRet

AdjacentJoin ==
    /\ call.fn = "adjacent_join"
    /\ ret = NoRet
    /\ ret' = AdjacentJoinResult(call.first_series, call.second_series,
                                 call.min_gap, call.max_gap)
    /\ UNCHANGED <<heap, mem, call>>

NextJoin == AdjacentJoin

SpecJoin == InitJoin /\ [][NextJoin]_vars

(***************************************************************************)
(* algebra.py: extract_dict                                                *)
(***************************************************************************)
TOKENS == A

\* a tokenized text: every character is one token
Tokenized(text) ==
    <<text, [i \in 1..Len(text) |-> i - 1], [i \in 1..Len(text) |-> i]>>

\* the dictionary frame in the format of load_dict: columns toks_0 ..
\* toks_{k-1}, k the length of the longest entry, shorter entries padded
\* with None
DictFrame(entries) ==
    LET width == Max({Len(entries[d]) : d \in 1..Len(entries)})
    IN  [d \in 1..Len(entries) |->
            [k \in 1..width |->
                IF k <= Len(entries[d]) THEN Str(entries[d][k]) ELSE None]]

\* dictionary["toks_<k>"] of row d
Toks(dictionary, d, k) == dictionary[d][k + 1]

\* pd.merge(dictionary, toks_tmp, left_on="toks_0", right_on="normalized_text")
\* with token_id renamed to begin_token_id
FirstTokenMatches(dictionary, normalized_text) ==
    ConcatAll([d \in 1..Len(dictionary) |->
                 LET ids == SelectSeq([t \in 1..Len(normalized_text) |-> t - 1],
                                LAMBDA t : normalized_text[t + 1]
                                             = Toks(dictionary, d, 0))
                 IN  [k \in 1..Len(ids) |->
                         [entry |-> d, begin_token_id |-> ids[k]]]])

\* matches[match_locs]: the entries that have None in column toks_<match_len>
CompletedMatches(dictionary, matches, match_len) ==
    SelectSeq(matches, LAMBDA r : Toks(dictionary, r.entry, match_len) = None)

\* partial matches kept for the next length whenever a next token exists,
\* whatever its text
ExtendedMatchesAnyToken(dictionary, normalized_text, matches, match_len) ==
    SelectSeq(matches,
        LAMBDA r :
            /\ Toks(dictionary, r.entry, match_len) # None
            /\ r.begin_token_id + match_len < Len(normalized_text))

\* the partial matches kept for the next length: those whose next token
\* exists and has the normalized text of column toks_<match_len>
ExtendedMatches(dictionary, normalized_text, matches, match_len) ==
    SelectSeq(matches,
        LAMBDA r :
            /\ Toks(dictionary, r.entry, match_len) # None
            /\ r.begin_token_id + match_len < Len(normalized_text)
            /\ normalized_text[r.begin_token_id + match_len + 1]
                 = Toks(dictionary, r.entry, match_len))

\* the last match length the loop of extract_dict handles:
\* range(1, max_entry_len) ends at max_entry_len - 1
LastMatchLen(max_entry_len) == max_entry_len - 1

RECURSIVE DictLoop(_, _, _, _, _)
\* the loop over match_len: the list of the completed matches of each length
DictLoop(dictionary, normalized_text, matches, match_len, last) ==
    IF match_len > last THEN <<>>
    ELSE LET done == CompletedMatches(dictionary, matches, match_len)
         IN  <<[k \in 1..Len(done) |->
                   TokenSpan(done[k].begin_token_id,
                             done[k].begin_token_id + match_len)]>>
             \o DictLoop(dictionary, normalized_text,
                         ExtendedMatches(dictionary, normalized_text, matches,
                                         match_len),
                         match_len + 1, last)

\* extract_dict(tokens, dictionary), given the normalized text of the tokens.
\* np.concatenate of an empty list raises.
ExtractDictResult(dictionary, normalized_text) ==
    LET max_entry_len == Len(dictionary[1])
        spans_list == DictLoop(dictionary, normalized_text,
                               FirstTokenMatches(dictionary, normalized_text),
                               1, LastMatchLen(max_entry_len))
    IN  IF Len(spans_list) = 0
        THEN Result("extract_dict", TOKENS, 0, "ValueError", None)
        ELSE Result("extract_dict", TOKENS, 0, "",
                    [kind |-> "TokenSpanArray", spans |-> ConcatAll(spans_list)])

\* the token array is in the heap: a CharSpanArray over the tokenized text
TokensInit(text) == HeapInit(Tokenized(text), Tokenized(text))

TokenTexts ==
    {<<"N", "Y", "C", "H">>}
        \cup UNION {[1..n -> {"N", "y", "C"}] : n \in 1..MaxTokens}

\* dictionary entries: sequences of normalized tokens, each token a str
DictEntries ==
    { <<<<"n">>>>,
      <<<<"n">>, <<"y">>>>,
      <<<<"n">>, <<"y">>, <<"c">>>>,
      <<<<"y">>, <<"c">>>> }

Dictionaries ==
    {<<e>> : e \in DictEntries}
        \cup {<<p[1], p[2]>> : p \in {q \in DictEntries \X DictEntries : q[1] # q[2]}}

InitDict ==
    /\ \E text \in TokenTexts : TokensInit(text)
    /\ \E entries \in Dictionaries :
          call = [fn |-> "extract_dict", entries |-> entries,
                  dictionary |-> DictFrame(entries)]
    /\ ret = NoRet

\* extract_dict(tokens, dictionary): tokens.values.normalized_covered_text is
\* read (and memoized by the token array) before the matching
ExtractDict ==
    /\ call.fn = "extract_dict"
    /\ ret = NoRet
    /\ UNCHANGED <<mem, call>>
    /\ LET covered == CoveredText(heap, mem, TOKENS)
           err == NormalizeError(covered)
           memo == MemoizedRead(heap[TOKENS].normalized_covered_text,
                                Normalize(covered))
       IN  IF heap[TOKENS].normalized_covered_text = None /\ err # ""
           THEN /\ ret' = Result("extract_dict", TOKENS, 0, err, None)
                /\ UNCHANGED heap
           ELSE /\ heap' = [heap EXCEPT ![TOKENS].normalized_covered_text = memo]
                /\ ret' = ExtractDictResult(call.dictionary, memo.v)

NextDict == ExtractDict

SpecDict == InitDict /\ [][NextDict]_vars

(***************************************************************************)
(* algebra.py: extract_regex_tok                                           *)
(***************************************************************************)
\* compiled_regex.fullmatch(s) is not None, for the patterns tried
FullMatch(pattern, s) ==
    CASE pattern = "N" -> s = <<"N">>
      [] pattern = "N+" -> Len(s) >= 1 /\ \A i \in 1..Len(s) : s[i] = "N"
      [] pattern = ".y" -> Len(s) = 2 /\ s[2] = "y"
      [] pattern = ".*C" -> Len(s) >= 1 /\ s[Len(s)] = "C"
      [] OTHER -> FALSE

Patterns == {"N", "N+", ".y", ".*C"}

\* the covered text of the token span [begin_token, end_token): from the
\* begin of its first token to the end of its last
WindowText(h, m, begin_token, end_token) ==
    PySlice(h[TOKENS].text, Begin(h, m, TOKENS)[begin_token + 1],
            End(h, m, TOKENS)[end_token])

\* np.arange(0, num_tokens - cur_len + 1)
WindowBegins(num_tokens, cur_len) ==
    [i \in 1..(num_tokens - cur_len + 1) |-> i - 1]

\* the windows of cur_len tokens whose covered text the expression matches
WindowMatches(h, m, pattern, cur_len) ==
    LET begins == WindowBegins(Len(Begin(h, m, TOKENS)), cur_len)
        hits == SelectSeq(begins,
                    LAMBDA b : FullMatch(pattern, WindowText(h, m, b, b + cur_len)))
    IN  [k \in 1..Len(hits) |-> TokenSpan(hits[k], hits[k] + cur_len)]

\* extract_regex_tok(tokens, compiled_regex, min_len, max_len).  The function
\* built by np.vectorize without otypes raises on an input of size 0, that is
\* on the windows of a length that no window has; pd.concat raises on an
\* empty list.
ExtractRegexTokResult(h, m, pattern, min_len, max_len) ==
    LET num_tokens == Len(Begin(h, m, TOKENS))
    IN  IF \E cur_len \in min_len..max_len :
              Len(WindowBegins(num_tokens, cur_len)) = 0
        THEN Result("extract_regex_tok", TOKENS, 0, "ValueError", None)
        ELSE IF max_len < min_len
        THEN Result("extract_regex_tok", TOKENS, 0, "ValueError", None)
        ELSE Result("extract_regex_tok", TOKENS, 0, "",
                    [kind |-> "DataFrame",
                     rows |-> ConcatAll([k \in 1..(max_len - min_len + 1) |->
                                 WindowMatches(h, m, pattern, min_len + k - 1)])])

InitRegex ==
    /\ \E text \in TokenTexts : TokensInit(text)
    /\ \E pattern \in Patterns, min_len \in 1..(MaxTokens + 1),
          max_len \in 1..(MaxTokens + 1) :
          call = [fn |-> "extract_regex_tok", pattern |-> pattern,
                  min_len |-> min_len, max_len |-> max_len]
    /\ ret = NoRet

ExtractRegexTok ==
    /\ call.fn = "extract_regex_tok"
    /\ ret = NoRet
    /\ ret' = ExtractRegexTokResult(heap, mem, call.pattern, call.min_len,
                                    call.max_len)
    /\ UNCHANGED <<heap, mem, call>>

NextRegex == ExtractRegexTok

SpecRegex == InitRegex /\ [][NextRegex]_vars

(***************************************************************************)
(* algebra.py: combine_spans, combine_agg                                  *)
(***************************************************************************)
\* combine_spans(series1, series2): the begin tokens of series1 with the end
\* tokens of series2
CombineSpansResult(series1, series2) ==
    Result("combine_spans", 0, 0, "",
           [kind |-> "TokenSpanArray",
            spans |-> [i \in 1..Len(series1) |->
                          TokenSpan(series1[i].begin_token, series2[i].end_token)]])

CombineInputs == {TokenSpan(0, 1), TokenSpan(0, 2), TokenSpan(1, 3), TokenSpan(2, 3)}

InitCombine ==
    /\ \E n \in 1..MaxRows :
          \E series1 \in [1..n -> CombineInputs], series2 \in [1..n -> CombineInputs] :
             call = [fn |-> "combine_spans", series1 |-> series1,
                     series2 |-> series2]
    /\ heap = [i \in ObjIds |-> NoObj]
    /\ mem = [k \in BufIds |-> <<>>]
    /\ ret = NoRet

CombineSpans ==
    /\ call.fn = "combine_spans"
    /\ ret = NoRet
    /\ ret' = CombineSpansResult(call.series1, call.series2)
    /\ UNCHANGED <<heap, mem, call>>

NextCombine == CombineSpans

SpecCombine == InitCombine /\ [][NextCombine]_vars

\* what combine_agg is handed: a Series over a CharSpanArray or over token
\* spans, a DataFrame, another iterable, anything else
SeriesOf(x) == [type |-> "Series", dtype |-> "CharSpanType", values |-> x]

\* combine_agg(arg)
CombineAggResult(h, m, arg) ==
    IF arg.type = "Series"
    THEN IF arg.dtype = "TokenSpanType"
         THEN IF Len(arg.spans) = 0
              THEN Result("combine_agg", 0, 0, "ValueError", None)
              ELSE Result("combine_agg", 0, 0, "",
                          TokenSpan(Min({arg.spans[i].begin_token :
                                           i \in 1..Len(arg.spans)}),
                                    Max({arg.spans[i].end_token :
                                           i \in 1..Len(arg.spans)})))
         ELSE IF arg.dtype = "CharSpanType"
         THEN LET b == Begin(h, m, arg.values)
                  e == End(h, m, arg.values)
              IN  IF Len(b) = 0 \/ Len(e) = 0
                  THEN Result("combine_agg", arg.values, 0, "ValueError", None)
                  ELSE LET err == CharSpanInitError(h[arg.values].text,
                                                    Min(Range(b)), Max(Range(e)))
                       IN  Result("combine_agg", arg.values, 0, err,
                                  IF err = ""
                                  THEN CharSpan(h[arg.values].text,
                                                Min(Range(b)), Max(Range(e)))
                                  ELSE None)
         ELSE Result("combine_agg", 0, 0, "ValueError", None)
    ELSE IF arg.type = "DataFrame"
    THEN Result("combine_agg", 0, 0, "NotImplementedError", None)
    ELSE IF arg.type = "Iterable"
    THEN Result("combine_agg", 0, 0, "NotImplementedError", None)
    ELSE Result("combine_agg", 0, 0, "ValueError", None)

CombineAgg(arg) == Returns(CombineAggResult(heap, mem, arg))

AggArgs ==
    {SeriesOf(A),
     [type |-> "Series", dtype |-> "TokenSpanType",
      spans |-> <<TokenSpan(0, 2), TokenSpan(1, 3)>>],
     [type |-> "Series", dtype |-> "int64"],
     [type |-> "DataFrame"], [type |-> "Iterable"], [type |-> "int"]}

\* the pairs of ints the constructor takes as one element of an array over
\* a text: it checks the types of its arguments and no offset
SpanPairs(text) == (-1..(Len(text) + 1)) \X (-1..(Len(text) + 1))

\* the arrays of k such elements over a text
ArraysOfLen(text, k) ==
    {<<text, [i \in 1..k |-> f[i][1]], [i \in 1..k |-> f[i][2]]>> :
        f \in [1..k -> SpanPairs(text)]}

\* the arrays of 1 to n such elements over a text
ArraysOver(text, n) == UNION {ArraysOfLen(text, k) : k \in 1..n}

InitAgg ==
    /\ \E ia \in ArraysOver(TextAb, MaxRows) :
          /\ heap = [i \in ObjIds |->
                       IF i = A THEN CharSpanArrayInit(ia[1],
                                        NdArray(1, 0, Len(ia[2])),
                                        NdArray(2, 0, Len(ia[3])))
                       ELSE NoObj]
          /\ mem = [k \in BufIds |->
                       IF k = 1 THEN ia[2] ELSE IF k = 2 THEN ia[3] ELSE <<>>]
    /\ call = NoCall
    /\ ret = NoRet

ReductionNames == {"sum", "min", "max"}

NextAgg ==
    \/ \E name \in ReductionNames : Reduce(A, name)
    \/ \E arg \in AggArgs : CombineAgg(arg)

SpecAgg == InitAgg /\ [][NextAgg]_vars

(***************************************************************************)
(* Clients of __setitem__                                                  *)
(***************************************************************************)
\* keys of every kind __setitem__ tells apart: ints in and out of range, an
\* ndarray of indices, a slice
AnyKeys ==
    {IntKey(0), IntKey(1), IntKey(-1), IntKey(2), IntKey(-3),
     [kind |-> "ndarray"], [kind |-> "slice"]}

\* values: None, spans over the text "Ab", a span over the longer text
\* "AbC", an object that is no CharSpan
AnyValues ==
    {None, CharSpan(TextAb, 0, 1), CharSpan(TextAbC, 2, 3), OtherObject}

\* arrays whose elements are null or lie within their target text
ValidInputs ==
    { <<TextAb, <<0, 1>>, <<1, 2>>>>,
      <<TextAb, <<-1, 0>>, <<-1, 2>>>>,
      <<TextAb, <<0>>, <<1>>>> }

\* a validly constructed array a, and an equal array b to compare it with
InitSet ==
    /\ \E ia \in ValidInputs : HeapInit(ia, ia)
    /\ call = NoCall
    /\ ret = NoRet

NextSet ==
    \/ \E key \in AnyKeys, value \in AnyValues : SetItem(A, key, value)
    \/ Equals(A, B)
    \/ Hash(A)

SpecSet == InitSet /\ [][NextSet]_vars

\* arrays the constructor accepts: the valid ones, and ones whose offset
\* arrays differ in length or leave the text
AcceptedInputs ==
    ValidInputs \cup { <<TextAb, <<0, 1>>, <<1>>>>,
                       <<TextAb, <<0>>, <<1, 2>>>>,
                       <<TextAb, <<0, 1>>, <<1, 3>>>> }

InitSetAny ==
    /\ \E ia \in AcceptedInputs : HeapInit(ia, ia)
    /\ call = NoCall
    /\ ret = NoRet

NextSetAny ==
    \/ \E key \in AnyKeys, value \in AnyValues : SetItem(A, key, value)
    \/ Equals(A, B)
    \/ Hash(A)

SpecSetAny == InitSetAny /\ [][NextSetAny]_vars

(***************************************************************************)
(* CharSpan: ordering and overlap                                          *)
(***************************************************************************)
\* a "<" that leaves out spans that touch
SpanLtStrict(self, other) == self.end < other.begin

\* CharSpan.__lt__(other) for a span: span1 < span2 if span1.end <= span2.begin
SpanLt(self, other) == self.end <= other.begin

\* CharSpan.__gt__(other): other < self
SpanGt(self, other) == SpanLt(other, self)

\* overlaps without the test for identical offsets
SpanOverlapsByOrderOnly(self, other) ==
    IF other.begin >= self.end THEN FALSE
    ELSE IF other.end <= self.begin THEN FALSE
    ELSE TRUE

\* CharSpan.overlaps(other)
SpanOverlaps(self, other) ==
    IF self.begin = other.begin /\ self.end = other.end THEN TRUE
    ELSE IF other.begin >= self.end THEN FALSE
    ELSE IF other.end <= self.begin THEN FALSE
    ELSE TRUE

\* CharSpan.__lt__(other) with the type test on other
SpanLtResult(self, other) ==
    IF other.kind \in {"CharSpan", "CharSpanArray"}
    THEN Result("CharSpan.__lt__", 0, 0, "", Bool(SpanLt(self, other)))
    ELSE Result("CharSpan.__lt__", 0, 0, "ValueError", None)

\* CharSpan.__gt__(other) and overlaps(other), other a span
SpanGtResult(self, other) ==
    Result("CharSpan.__gt__", 0, 0, "", Bool(SpanGt(self, other)))

SpanOverlapsResult(self, other) ==
    Result("CharSpan.overlaps", 0, 0, "", Bool(SpanOverlaps(self, other)))

\* CharSpanArray.__lt__(other) with a single span: self.end <= other.begin,
\* the scalar broadcast to every row
LtSpanResult(h, m, x, other) ==
    IF other.kind # "CharSpan"
    THEN Result("__lt__", x, 0, "ValueError", None)
    ELSE Result("__lt__", x, 0, "",
                Mask([i \in 1..Len(End(h, m, x)) |->
                        End(h, m, x)[i] <= other.begin]))

\* CharSpanArray.overlaps(other) with an array: the logic of
\* CharSpan.overlaps on boolean masks
OverlapsResult(h, m, x, y) ==
    LET sb == Begin(h, m, x)
        se == End(h, m, x)
        ob == Begin(h, m, y)
        oe == End(h, m, y)
        lens == {Len(sb), Len(se), Len(ob), Len(oe)} \ {1}
        k == IF lens = {} THEN 1 ELSE Max(lens)
    IN  IF Cardinality(lens) > 1
        THEN Result("overlaps", x, y, "ValueError", None)
        ELSE Result("overlaps", x, y, "",
                Mask([i \in 1..k |->
                   \/ /\ BroadcastAt(sb, k, i) = BroadcastAt(ob, k, i)
                      /\ BroadcastAt(se, k, i) = BroadcastAt(oe, k, i)
                   \/ ~ \/ BroadcastAt(ob, k, i) >= BroadcastAt(se, k, i)
                        \/ BroadcastAt(oe, k, i) <= BroadcastAt(sb, k, i)]))

\* the spans CharSpan.__init__ builds over a text from offsets -1 .. len+1
SpansOver(text) ==
    {CharSpan(text, p[1], p[2]) :
        p \in {q \in (-1..(Len(text) + 1)) \X (-1..(Len(text) + 1)) :
                 CharSpanInitError(text, q[1], q[2]) = ""}}

\* arrays of two elements the constructor accepts, zero-length spans, null
\* elements and elements with end before begin among them
RelInputs ==
    { <<TextAb, <<0, 1>>, <<1, 2>>>>,
      <<TextAb, <<1, -1>>, <<1, -1>>>>,
      <<TextAb, <<0, 2>>, <<2, 0>>>> }

\* two spans a and b over one text, and two arrays over it
InitRel ==
    /\ \E ia \in RelInputs, ib \in RelInputs : HeapInit(ia, ib)
    /\ \E a \in SpansOver(TextAb), b \in SpansOver(TextAb) :
          call = [fn |-> "compare", a |-> a, b |-> b]
    /\ ret = NoRet

CharSpanLt == call.fn = "compare" /\ Returns(SpanLtResult(call.a, call.b))

CharSpanGt == call.fn = "compare" /\ Returns(SpanGtResult(call.a, call.b))

CharSpanOverlaps ==
    call.fn = "compare" /\ Returns(SpanOverlapsResult(call.a, call.b))

LtSpan(x) == call.fn = "compare" /\ Returns(LtSpanResult(heap, mem, x, call.b))

Overlaps(x, y) == Returns(OverlapsResult(heap, mem, x, y))

NextRel ==
    \/ CharSpanLt
    \/ CharSpanGt
    \/ CharSpanOverlaps
    \/ LtSpan(A)
    \/ Lt(A, B)
    \/ Overlaps(A, B)

SpecRel == InitRel /\ [][NextRel]_vars

(***************************************************************************)
(* Clients of take                                                         *)
(***************************************************************************)
\* index lists for take: positions 0 and 1, the fill marker -1, an index
\* past the end
TakeArgs == {<<0>>, <<-1>>, <<1, 0>>, <<-1, 0>>, <<0, -1>>, <<-1, -1>>, <<2>>}

\* fill values: None, NaN, another float, a CharSpan, an object of another
\* type
TakeFills ==
    {None, [kind |-> "nan"], [kind |-> "float"], CharSpan(TextAb, 0, 2),
     OtherObject}

InitTake ==
    /\ \E ia \in ValidInputs : HeapInit(ia, ia)
    /\ \E indices \in TakeArgs, allow_fill \in BOOLEAN, fill_value \in TakeFills :
          call = [fn |-> "take", indices |-> indices,
                  allow_fill |-> allow_fill, fill_value |-> fill_value]
    /\ ret = NoRet

TakeCall ==
    /\ call.fn = "take"
    /\ Returns(TakeResult(heap, mem, A, call.indices, call.allow_fill,
                          call.fill_value))

NextTake == TakeCall

SpecTake == InitTake /\ [][NextTake]_vars

(***************************************************************************)
(* Arrays built from other arrays: slices concatenated, copies             *)
(***************************************************************************)
\* the object slot and the two buffers of the next array a client builds
NewId == 3

NewBegins == 5

NewEnds == 6

\* CharSpanArray(text, begins, ends) for two freshly allocated ndarrays
NewArray(h, m, text, begins, ends) ==
    [heap |-> [h EXCEPT ![NewId] =
                  CharSpanArrayInit(text, NdArray(NewBegins, 0, Len(begins)),
                                    NdArray(NewEnds, 0, Len(ends)))],
     mem |-> [m EXCEPT ![NewBegins] = begins, ![NewEnds] = ends]]

\* r = CharSpanArray._concat_same_type([x[0:k], x[k:n]]) with n = len(x)
ConcatSlices(x, k) ==
    /\ IsLive(heap, x)
    /\ heap[NewId] = NoObj
    /\ k <= heap[x].begins.n
    /\ LET n == heap[x].begins.n
           slices == <<SliceOf(heap, x, 0, k), SliceOf(heap, x, k, n)>>
           r == ConcatResult(slices, mem, 1, 2)
       IN  IF r.raised # ""
           THEN /\ ret' = Result("_concat_same_type", 0, 0, r.raised, None)
                /\ UNCHANGED <<heap, mem>>
           ELSE LET new == NewArray(heap, mem, r.value.text, r.value.begin,
                                    r.value.end)
                IN  /\ heap' = new.heap
                    /\ mem' = new.mem
                    /\ ret' = Result("_concat_same_type", NewId, x, "", None)
    /\ UNCHANGED call

\* arrays the constructor accepts, null elements among them
RoundTripInputs ==
    AcceptedInputs \cup { <<TextAb, <<-1, -1>>, <<-1, -1>>>> }

InitRound ==
    /\ \E ia \in RoundTripInputs : HeapInit(ia, ia)
    /\ call = NoCall
    /\ ret = NoRet

\* a is changed by set_item, then split and concatenated again, and the
\* result compared with a
NextRound ==
    \/ \E key \in SetKeys, value \in SetValues :
          heap[NewId] = NoObj /\ SetItem(A, key, value)
    \/ \E k \in 0..MaxRows : ConcatSlices(A, k)
    \/ Equals(NewId, A)
    \/ Equals(A, NewId)

SpecRound == InitRound /\ [][NextRound]_vars

\* an ndarray.copy() that hands back the array itself
NdCopyShared(nd, base) == nd

\* ndarray.copy(): a new ndarray over a buffer of its own
NdCopy(nd, base) == NdArray(base, 0, nd.n)

\* c = x.copy(): a new CharSpanArray over copies of x's offset arrays, with
\* counters and caches as the constructor sets them
CopyArray(x) ==
    /\ IsLive(heap, x)
    /\ heap[NewId] = NoObj
    /\ heap' = [heap EXCEPT ![NewId] =
                  CharSpanArrayInit(heap[x].text,
                                    NdCopy(heap[x].begins, NewBegins),
                                    NdCopy(heap[x].ends, NewEnds))]
    /\ mem' = [mem EXCEPT ![NewBegins] = Begin(heap, mem, x),
                          ![NewEnds] = End(heap, mem, x)]
    /\ ret' = Result("copy", x, NewId, "", None)
    /\ UNCHANGED call

\* an array with a null element, and one the constructor accepts although
\* its ends are fewer than its begins
CopyInputs ==
    { <<TextAb, <<-1, 0>>, <<-1, 2>>>>,
      <<TextAb, <<0, 1>>, <<1>>>> }

CopyKeys == {IntKey(0), IntKey(-1), IntKey(2)}

CopyValues == {None, CharSpan(TextAb, 1, 2)}

InitCopy ==
    /\ \E ia \in CopyInputs : HeapInit(ia, ia)
    /\ call = NoCall
    /\ ret = NoRet

\* a and its copy c are changed by set_item, hashed and compared
NextCopy ==
    \/ CopyArray(A)
    \/ \E x \in {A, NewId}, key \in CopyKeys, value \in CopyValues :
          SetItem(x, key, value)
    \/ \E x \in {A, NewId} : Hash(x)
    \/ Equals(NewId, A)
    \/ Equals(A, NewId)

SpecCopy == InitCopy /\ [][NextCopy]_vars

(***************************************************************************)
(* Clients of _concat_same_type and _from_sequence                         *)
(***************************************************************************)
\* _from_sequence(scalars): the first element that is no CharSpan, or whose
\* target text differs from the first element's, raises
FromSequenceResult(scalars) ==
    IF \E i \in 1..Len(scalars) :
          \/ scalars[i].kind # "CharSpan"
          \/ /\ \A j \in 1..i : scalars[j].kind = "CharSpan"
             /\ scalars[i].text # scalars[1].text
    THEN Result("_from_sequence", 0, 0, "ValueError", None)
    ELSE Result("_from_sequence", 0, 0, "",
                ArrayValue(IF Len(scalars) = 0 THEN None ELSE scalars[1].text,
                           [i \in 1..Len(scalars) |-> scalars[i].begin],
                           [i \in 1..Len(scalars) |-> scalars[i].end]))

\* what _from_sequence is handed: spans over two texts, a null span, an
\* object that is no CharSpan
Scalars ==
    {CharSpan(TextAb, 0, 1), CharSpan(TextAb, NULL_OFFSET_VALUE, NULL_OFFSET_VALUE),
     CharSpan(TextAbC, 2, 3), OtherObject}

ConcatInputs == AcceptedInputs \cup { <<TextAbC, <<0, 1>>, <<1, 2>>>> }

InitConcat ==
    /\ \E ia \in ConcatInputs, ib \in ConcatInputs : HeapInit(ia, ib)
    /\ \E scalars \in UNION {[1..n -> Scalars] : n \in 0..MaxRows} :
          call = [fn |-> "_from_sequence", scalars |-> scalars]
    /\ ret = NoRet

FromSequence ==
    /\ call.fn = "_from_sequence"
    /\ Returns(FromSequenceResult(call.scalars))

NextConcat ==
    \/ \E x \in {A, B}, y \in {A, B} : Concat(x, y)
    \/ FromSequence

SpecConcat == InitConcat /\ [][NextConcat]_vars

(***************************************************************************)
(* algebra.py: lemmatize                                                   *)
(***************************************************************************)
RECURSIVE StrJoinNoSeparator(_, _)
\* a join that drops the separator
StrJoinNoSeparator(sep, strs) ==
    IF Len(strs) = 0 THEN <<>>
    ELSE Head(strs) \o StrJoinNoSeparator(sep, Tail(strs))

RECURSIVE StrJoin(_, _)
\* sep.join(strs)
StrJoin(sep, strs) ==
    IF Len(strs) = 0 THEN <<>>
    ELSE IF Len(strs) = 1 THEN Head(strs)
    ELSE Head(strs) \o sep \o StrJoin(sep, Tail(strs))

\* lemmatize(spans, token_features): lemma_col is the column
\* token_features[lemma_col_name], one lemma per token index
LemmatizeResult(spans, lemma_col) ==
    Result("lemmatize", 0, 0, "",
           [kind |-> "list",
            items |-> [i \in 1..Len(spans) |->
                         LET lemmas == PySlice(lemma_col, spans[i].begin_token,
                                               spans[i].end_token)
                         IN  StrJoin(<<" ">>, lemmas)]])

\* the lemma strings of the token-feature tables
Lemmas == {<<"a">>, <<"b", "e">>}

\* the token spans over n tokens, the null span included
TokenSpansOver(n) ==
    {s \in [begin_token : 0..n, end_token : 0..n] :
        s.begin_token <= s.end_token}
    \cup {TokenSpan(NULL_OFFSET_VALUE, NULL_OFFSET_VALUE)}

InitLemma ==
    /\ \E n \in 1..MaxTokens :
          \E lemma_col \in [1..n -> Lemmas],
             spans \in SeriesUpTo(TokenSpansOver(n), MaxRows) :
             call = [fn |-> "lemmatize", spans |-> spans,
                     token_features |-> lemma_col]
    /\ heap = [i \in ObjIds |-> NoObj]
    /\ mem = [k \in BufIds |-> <<>>]
    /\ ret = NoRet

Lemmatize ==
    /\ call.fn = "lemmatize"
    /\ ret = NoRet
    /\ ret' = LemmatizeResult(call.spans, call.token_features)
    /\ UNCHANGED <<heap, mem, call>>

NextLemma == Lemmatize

SpecLemma == InitLemma /\ [][NextLemma]_vars

(***************************************************************************)
(* Clients of the algebra functions                                        *)
(***************************************************************************)
InitAlgebra ==
    \/ InitDict
    \/ InitRegex
    \/ InitJoin
    \/ InitCombine
    \/ InitAgg
    \/ InitLemma

CombineAggCall ==
    /\ call = NoCall
    /\ \E arg \in AggArgs : CombineAgg(arg)

NextAlgebra ==
    \/ ExtractDict
    \/ ExtractRegexTok
    \/ AdjacentJoin
    \/ CombineSpans
    \/ CombineAggCall
    \/ Lemmatize

SpecAlgebra == InitAlgebra /\ [][NextAlgebra]_vars

(***************************************************************************)
(* CharSpan: covered_text and context                                      *)
(***************************************************************************)
\* CharSpan.covered_text
SpanCoveredText(self) ==
    IF NULL_OFFSET_VALUE = self.begin THEN None
    ELSE Str(PySlice(self.text, self.begin, self.end))

\* an f-string field: str(v)
Format(v) == IF v = None THEN <<"N", "o", "n", "e">> ELSE v.v

\* CharSpan.context(num_chars)
ContextResult(self, num_chars) ==
    LET before_text == PySlice(self.text, self.begin - num_chars, self.begin)
        after_text == PySlice(self.text, self.end, self.end + num_chars)
        before == IF self.begin > num_chars
                  THEN <<".", ".", ".">> \o before_text ELSE before_text
        after == IF self.end + num_chars < Len(self.text)
                 THEN after_text \o <<".", ".", ".">> ELSE after_text
    IN  Result("context", 0, 0, "",
               Str(before \o <<"[">> \o Format(SpanCoveredText(self))
                       \o <<"]">> \o after))

\* a span over one of the texts and a window size
InitContext ==
    /\ \E text \in Texts :
          \E span \in SpansOver(text), num_chars \in 0..MaxOffset :
             call = [fn |-> "context", self |-> span, num_chars |-> num_chars]
    /\ heap = [i \in ObjIds |-> NoObj]
    /\ mem = [k \in BufIds |-> <<>>]
    /\ ret = NoRet

Context ==
    /\ call.fn = "context"
    /\ ret = NoRet
    /\ ret' = ContextResult(call.self, call.num_chars)
    /\ UNCHANGED <<heap, mem, call>>

NextContext == Context

SpecContext == InitContext /\ [][NextContext]_vars

(***************************************************************************)
(* Clients of a slice of an array                                          *)
(***************************************************************************)
\* s = x[lo:hi]: the new array is built over views of x's offset arrays
GetSlice(x, lo, hi) ==
    /\ IsLive(heap, x)
    /\ heap[NewId] = NoObj
    /\ heap' = [heap EXCEPT ![NewId] = SliceOf(heap, x, lo, hi)]
    /\ ret' = Result("__getitem__", NewId, x, "", None)
    /\ UNCHANGED <<mem, call>>

\* two equal arrays a and b
InitSlice ==
    /\ \E ia \in ArrayInputs : HeapInit(ia, ia)
    /\ call = NoCall
    /\ ret = NoRet

\* s = a[lo:hi] is taken and changed by set_item between equals and hash
\* calls on a
NextSlice ==
    \/ \E lo \in 0..MaxRows, hi \in 0..MaxRows : GetSlice(A, lo, hi)
    \/ \E key \in SetKeys, value \in SetValues : SetItem(NewId, key, value)
    \/ Equals(A, B)
    \/ Hash(A)

SpecSlice == InitSlice /\ [][NextSlice]_vars

(***************************************************************************)
(* Clients that discard an array and construct another                     *)
(***************************************************************************)
\* del x: the last reference to x goes away and the object is freed; the
\* lists of ids other arrays hold are not told
Discard(x) ==
    /\ IsLive(heap, x)
    /\ heap' = [heap EXCEPT ![x] = NoObj]
    /\ mem' = [mem EXCEPT ![2 * x - 1] = <<>>, ![2 * x] = <<>>]
    /\ ret' = Result("del", x, 0, "", None)
    /\ UNCHANGED call

\* c = CharSpanArray(text, begins, ends): id(c) is any identity no live
\* object has, the one of a freed array included
Construct(c, ic) ==
    /\ heap[c] = NoObj
    /\ heap' = [heap EXCEPT ![c] =
                  CharSpanArrayInit(ic[1], NdArray(2 * c - 1, 0, Len(ic[2])),
                                    NdArray(2 * c, 0, Len(ic[3])))]
    /\ mem' = [mem EXCEPT ![2 * c - 1] = ic[2], ![2 * c] = ic[3]]
    /\ ret' = Result("CharSpanArray", c, 0, "", None)
    /\ UNCHANGED call

\* two equal arrays a and b
InitReuse ==
    /\ \E ia \in ArrayInputs : HeapInit(ia, ia)
    /\ call = NoCall
    /\ ret = NoRet

\* b is discarded and c constructed between equals calls on a
NextReuse ==
    \/ \E y \in {B, NewId} : Equals(A, y)
    \/ Discard(B)
    \/ \E c \in {B, NewId}, ic \in ArrayInputs : Construct(c, ic)

SpecReuse == InitReuse /\ [][NextReuse]_vars

(***************************************************************************)
(* equals called from two threads                                          *)
(***************************************************************************)
\* a thread inside equals: the statement it is about to run, its local
\* cache_ix, and what it raised or returned once it is done
Thread(pc, cache_ix, raised, value) ==
    [pc |-> pc, cache_ix |-> cache_ix, raised |-> raised, value |-> value]

\* one statement of x.equals(y) run by a thread in state th: the thread and
\* the heap afterwards.  A list subscript past the end raises IndexError and
\* list.index of a missing value ValueError.
EqualsThreadStep(h, m, x, y, th) ==
    LET obj == h[x]
        ix == th.cache_ix
        Go(pc) == [th |-> [th EXCEPT !.pc = pc], heap |-> h]
        Raise(e) == [th |-> [th EXCEPT !.pc = "done", !.raised = e], heap |-> h]
        Return(v, hh) ==
            [th |-> [th EXCEPT !.pc = "done", !.value = Bool(v)], heap |-> hh]
    IN  CASE th.pc = "test" ->
                IF y \in Range(obj.equivalent_arrays)
                THEN Go("index")
                ELSE [th |-> Thread("check", 0, "", None), heap |-> h]
          [] th.pc = "index" ->
                IF IndexOf(obj.equivalent_arrays, y) = 0
                THEN Raise("ValueError")
                ELSE [th |-> Thread("check", IndexOf(obj.equivalent_arrays, y),
                                    "", None),
                      heap |-> h]
          [] th.pc = "check" ->
                IF ix = 0 THEN Go("compare")
                ELSE IF ix > Len(obj.equiv_array_versions)
                THEN Raise("IndexError")
                ELSE IF CachedVersionMatches(obj, ix, h[y].version)
                THEN Return(TRUE, h)
                ELSE Go("compare")
          [] th.pc = "compare" ->
                IF ArraysDiffer(h, m, x, y)
                THEN IF ix > 0 THEN Go("del_arrays") ELSE Return(FALSE, h)
                ELSE IF ix > 0 THEN Go("store_version") ELSE Go("append_array")
          [] th.pc = "del_arrays" ->
                IF ix > Len(obj.equivalent_arrays)
                THEN Raise("IndexError")
                ELSE [th |-> [th EXCEPT !.pc = "del_versions"],
                      heap |-> [h EXCEPT ![x].equivalent_arrays = DelAt(@, ix)]]
          [] th.pc = "del_versions" ->
                IF ix > Len(obj.equiv_array_versions)
                THEN Raise("IndexError")
                ELSE Return(FALSE,
                            [h EXCEPT ![x].equiv_array_versions = DelAt(@, ix)])
          [] th.pc = "store_version" ->
                IF ix > Len(obj.equiv_array_versions)
                THEN Raise("IndexError")
                ELSE Return(TRUE,
                            [h EXCEPT ![x].equiv_array_versions[ix] =
                                h[y].version])
          [] th.pc = "append_array" ->
                [th |-> [th EXCEPT !.pc = "append_version"],
                 heap |-> [h EXCEPT ![x].equivalent_arrays = Append(@, y)]]
          [] th.pc = "append_version" ->
                Return(TRUE,
                       [h EXCEPT ![x].equiv_array_versions =
                           Append(@, h[y].version)])

Threads == {1, 2}

\* two equal arrays a and b
InitThreads ==
    /\ \E ia \in ArrayInputs : HeapInit(ia, ia)
    /\ call = NoCall
    /\ ret = NoRet

\* two threads enter a.equals(b)
StartThreads ==
    /\ call = NoCall
    /\ call' = [fn |-> "equals", self |-> A, other |-> B,
                threads |-> [t \in Threads |-> Thread("test", 0, "", None)]]
    /\ UNCHANGED <<heap, mem, ret>>

\* thread t runs its next statement
ThreadStep(t) ==
    /\ call.fn = "equals"
    /\ call.threads[t].pc # "done"
    /\ LET new == EqualsThreadStep(heap, mem, call.self, call.other,
                                   call.threads[t])
       IN  /\ call' = [call EXCEPT !.threads[t] = new.th]
           /\ heap' = new.heap
           /\ ret' = IF new.th.pc = "done"
                     THEN Result("equals", call.self, call.other,
                                 new.th.raised, new.th.value)
                     ELSE ret
    /\ UNCHANGED mem

\* a and b are compared and changed by one thread; then two threads call
\* a.equals(b) and nothing else runs
NextThreads ==
    \/ call = NoCall /\ Equals(A, B)
    \/ \E x \in {A, B}, key \in SetKeys, value \in SetValues :
          call = NoCall /\ SetItem(x, key, value)
    \/ StartThreads
    \/ \E t \in Threads : ThreadStep(t)

SpecThreads == InitThreads /\ [][NextThreads]_vars

(***************************************************************************)
(* Claims                                                                  *)
(***************************************************************************)
\* same target text, same begin and end offsets in the same order
SameSpans(x, y) ==
    /\ heap[x].text = heap[y].text
    /\ Elems(mem, heap[x].begins) = Elems(mem, heap[y].begins)
    /\ Elems(mem, heap[x].ends) = Elems(mem, heap[y].ends)

\* C1: whatever set_item and equals calls came before, equals(other) returns
\* True exactly when the two arrays now have the same target text and the
\* same begin and end offsets in the same order; a result cached before a
\* set_item is never handed out.
C1_EqualsIsStructural ==
    ret.op = "equals" =>
        /\ ret.raised = ""
        /\ ret.value = Bool(SameSpans(ret.self, ret.other))

\* C1 witness: a.equals(b) answered False after a set_item on a, while b still
\* holds the entry "equal to a" that an earlier b.equals(a) cached.
C1_Witness ==
    /\ ret.op = "equals" /\ ret.self = A /\ ret.other = B
    /\ ret.value = Bool(FALSE)
    /\ heap[A].version > 0
    /\ heap[B].equivalent_arrays = <<A>>
    /\ heap[A].text = heap[B].text

\* C2: a set_item that returns adds exactly one to the version of its array
\* and leaves the equivalence cache empty and the memoized hash cleared; no
\* step lowers a version, and only set_item and increment_version on an array
\* change its version.
C2_VersionDiscipline ==
    [][\A x \in {A, B} :
          /\ heap'[x].version >= heap[x].version
          /\ heap'[x].version # heap[x].version =>
                /\ ret'.op \in {"__setitem__", "increment_version"}
                /\ ret'.self = x
          /\ (ret'.op = "__setitem__" /\ ret'.raised = "" /\ ret'.self = x) =>
                /\ heap'[x].version = heap[x].version + 1
                /\ heap'[x].equivalent_arrays = <<>>
                /\ heap'[x].equiv_array_versions = <<>>
                /\ heap'[x].hash = None]_vars

\* C2 witness: set_item has returned on a for the second time, after equals
\* and __hash__ ran on both arrays (b still holds what they cached).
C2_Witness ==
    /\ ret.op = "__setitem__" /\ ret.raised = "" /\ ret.self = A
    /\ heap[A].version = 2
    /\ heap[A].equivalent_arrays = <<>> /\ heap[A].hash = None
    /\ heap[B].equivalent_arrays = <<A>> /\ heap[B].hash # None
    /\ heap[B].version = 0

\* the lowercased covered text of the elements an array holds now (None for
\* a null element)
CurrentNormalizedText(x) ==
    [i \in 1..heap[x].begins.n |->
        IF Elems(mem, heap[x].begins)[i] = NULL_OFFSET_VALUE THEN None
        ELSE Str(Lower(PySlice(heap[x].text, Elems(mem, heap[x].begins)[i],
                               Elems(mem, heap[x].ends)[i])))]

\* C3: a read of normalized_covered_text returns the lowercased covered text of
\* the elements the array holds at the time of the read, also after set_item
\* replaced an element since the previous read.
C3_NormalizedTextIsCurrent ==
    (ret.op = "normalized_covered_text" /\ ret.raised = "") =>
        ret.value.v = CurrentNormalizedText(ret.self)

\* (begin, end) is the null pair or an interval inside a text of n characters
ValidOffsets(n, begin, end) ==
    \/ begin = NULL_OFFSET_VALUE /\ end = NULL_OFFSET_VALUE
    \/ 0 <= begin /\ begin <= end /\ end <= n

\* C9: CharSpan(text, begin, end) returns exactly when (begin, end) is the null
\* pair (-1, -1) or 0 <= begin <= end <= len(text), and raises otherwise.
C9_CharSpanValidatesOffsets ==
    ret.op = "CharSpan" =>
        (ret.raised = "" <=> ValidOffsets(Len(call.text), call.begin, call.end))

\* C10: CharSpanArray(text, begins, ends) raises when begins and ends differ in
\* length, when an element type is not an integer type, or when some pair of
\* offsets is neither the null pair nor an interval inside the text.
C10_CharSpanArrayValidates ==
    (ret.op = "CharSpanArray"
        /\ \/ Len(call.begins.v) # Len(call.ends.v)
           \/ call.begins.dtype # "int"
           \/ call.ends.dtype # "int"
           \/ \E i \in 1..Len(call.begins.v) :
                 i <= Len(call.ends.v)
                 /\ ~ValidOffsets(Len(call.text), call.begins.v[i], call.ends.v[i]))
    => ret.raised # ""

\* C4: with min_gap <= max_gap, adjacent_join returns the pair (f, s) exactly
\* when min_gap <= s.begin_token - f.end_token <= max_gap; first [0,1) and
\* second [2,3) are returned for min_gap = max_gap = 1.
C4_AdjacentJoinGap ==
    (ret.op = "adjacent_join" /\ call.min_gap <= call.max_gap) =>
        /\ ret.raised = ""
        /\ \A i \in 1..Len(call.first_series), j \in 1..Len(call.second_series) :
              (\E k \in 1..Len(ret.value.rows) :
                  ret.value.rows[k] = [first |-> i, second |-> j])
              <=> LET gap == call.second_series[j].begin_token
                               - call.first_series[i].end_token
                  IN  call.min_gap <= gap /\ gap <= call.max_gap

\* entry d of the dictionary matches the tokens from start token b on
EntryMatchesAt(entries, d, b) ==
    /\ b + Len(entries[d]) <= heap[TOKENS].begins.n
    /\ \A j \in 0..(Len(entries[d]) - 1) :
          Lower(PySlice(heap[TOKENS].text,
                        Elems(mem, heap[TOKENS].begins)[b + j + 1],
                        Elems(mem, heap[TOKENS].ends)[b + j + 1]))
            = entries[d][j + 1]

\* C5: extract_dict emits [b, b+L) for every start token b and every
\* dictionary row of L tokens, L from 1 up to the length of the longest entry,
\* whose tokens equal the normalized text of tokens b .. b+L-1; rows of
\* different lengths matching at the same start all emit.
C5_ExtractDictEmitsEveryMatch ==
    ret.op = "extract_dict" =>
        /\ ret.raised = ""
        /\ \A d \in 1..Len(call.entries), b \in 0..(heap[TOKENS].begins.n - 1) :
              EntryMatchesAt(call.entries, d, b) =>
                 \E k \in 1..Len(ret.value.spans) :
                    ret.value.spans[k] = TokenSpan(b, b + Len(call.entries[d]))

\* the number of rows of a frame that hold a span
RowCount(rows, span) == Cardinality({k \in 1..Len(rows) : rows[k] = span})

\* C6: with 1 <= min_len <= max_len over n tokens, extract_regex_tok returns
\* exactly one row for every window [b, b+len), min_len <= len <= max_len,
\* 0 <= b <= n-len, whose covered text the expression fully matches, and no
\* other row; a length greater than n adds no window and raises nothing.
C6_ExtractRegexTokWindows ==
    (ret.op = "extract_regex_tok"
        /\ 1 <= call.min_len /\ call.min_len <= call.max_len) =>
        /\ ret.raised = ""
        /\ LET n == Len(Begin(heap, mem, TOKENS))
           IN  \A b \in 0..n, len \in 1..(MaxTokens + 2) :
                  RowCount(ret.value.rows, TokenSpan(b, b + len))
                    = IF /\ call.min_len <= len /\ len <= call.max_len
                         /\ b <= n - len
                         /\ FullMatch(call.pattern,
                                      WindowText(heap, mem, b, b + len))
                      THEN 1 ELSE 0

\* C7: at every index i, combine_spans returns the shortest span covering
\* series1[i] and series2[i]: from the smaller of the two begin tokens to the
\* larger of the two end tokens.
C7_CombineSpansCoversBoth ==
    ret.op = "combine_spans" =>
        /\ ret.raised = ""
        /\ Len(ret.value.spans) = Len(call.series1)
        /\ \A i \in 1..Len(call.series1) :
              ret.value.spans[i]
                = TokenSpan(Min({call.series1[i].begin_token,
                                 call.series2[i].begin_token}),
                            Max({call.series1[i].end_token,
                                 call.series2[i].end_token}))

\* array x has no null element
NoNullElement(x) ==
    \A i \in 1..Len(Begin(heap, mem, x)) :
        Begin(heap, mem, x)[i] # NULL_OFFSET_VALUE

\* C8: for a non-empty array with no null element, the sum reduction and
\* combine_agg of a Series of the array return the CharSpan over the array's
\* text from the minimum of the begins to the maximum of the ends, which
\* contains every element; a reduction of another name raises.
C8_SumIsCombine ==
    (ret.op \in {"_reduce", "combine_agg"} /\ ret.self = A
        /\ Len(Begin(heap, mem, A)) > 0 /\ NoNullElement(A)) =>
        IF ret.op = "_reduce" /\ ret.name # "sum"
        THEN ret.raised # ""
        ELSE /\ ret.raised = ""
             /\ ret.value = CharSpan(heap[A].text,
                                     Min(Range(Begin(heap, mem, A))),
                                     Max(Range(End(heap, mem, A))))
             /\ \A i \in 1..Len(Begin(heap, mem, A)) :
                   Contains(ret.value,
                            CharSpan(heap[A].text, Begin(heap, mem, A)[i],
                                     End(heap, mem, A)[i]))

\* every stored pair of array x is the null pair or an interval inside x's
\* own target text
StoredPairsValid(h, m, x) ==
    /\ Len(Begin(h, m, x)) = Len(End(h, m, x))
    /\ \A i \in 1..Len(Begin(h, m, x)) :
          ValidOffsets(Len(h[x].text), Begin(h, m, x)[i], End(h, m, x)[i])

\* C11: set_item with a CharSpan over another target text raises and stores
\* nothing, so that every set_item on a validly constructed array leaves each
\* stored pair null or within the array's own text.
C11_SetItemKeepsSpansInText ==
    [][/\ \A key \in AnyKeys, value \in AnyValues :
             (SetItem(A, key, value) /\ value # None /\ value.kind = "CharSpan"
                 /\ value.text # heap[A].text)
             => (ret'.raised # "" /\ UNCHANGED <<heap, mem>>)
       /\ StoredPairsValid(heap, mem, A) => StoredPairsValid(heap', mem', A)]_vars

\* index i is outside an array of n elements
OutOfRange(i, n) == i >= n \/ i < -n

\* C12: set_item with an ndarray of indices, with a key that is no single
\* int, with an index outside the array's offsets, or with a value that is
\* neither None nor a CharSpan raises and leaves begins, ends, version,
\* equivalence cache and memoized hash as they were.
C12_FailedSetItemChangesNothing ==
    [][\A key \in AnyKeys, value \in AnyValues :
          (SetItem(A, key, value)
              /\ \/ key.kind # "int"
                 \/ OutOfRange(key.v, Len(Begin(heap, mem, A)))
                 \/ OutOfRange(key.v, Len(End(heap, mem, A)))
                 \/ (value # None /\ value.kind # "CharSpan"))
          => /\ ret'.op = "__setitem__"
             /\ ret'.raised # ""
             /\ Begin(heap', mem', A) = Begin(heap, mem, A)
             /\ End(heap', mem', A) = End(heap, mem, A)
             /\ heap'[A] = heap[A]]_vars

\* C13: over one text, a < b exactly when a.end <= b.begin and a > b exactly
\* when b.end <= a.begin (so both are false when neither holds); the "<" of
\* an array against a span or an array of the same length answers the same
\* at every index.
C13_LessThanIsEndBeforeBegin ==
    /\ ret.op = "CharSpan.__lt__" =>
          /\ ret.raised = ""
          /\ ret.value = Bool(call.a.end <= call.b.begin)
    /\ ret.op = "CharSpan.__gt__" =>
          /\ ret.raised = ""
          /\ ret.value = Bool(call.b.end <= call.a.begin)
    /\ (ret.op = "__lt__" /\ ret.other = 0) =>
          /\ ret.raised = ""
          /\ Len(ret.value.v) = Len(End(heap, mem, ret.self))
          /\ \A i \in 1..Len(ret.value.v) :
                ret.value.v[i] = (End(heap, mem, ret.self)[i] <= call.b.begin)
    /\ (ret.op = "__lt__" /\ ret.other # 0
           /\ Len(End(heap, mem, ret.self)) = Len(Begin(heap, mem, ret.other))) =>
          /\ ret.raised = ""
          /\ Len(ret.value.v) = Len(End(heap, mem, ret.self))
          /\ \A i \in 1..Len(ret.value.v) :
                ret.value.v[i] = (End(heap, mem, ret.self)[i]
                                    <= Begin(heap, mem, ret.other)[i])

\* two spans that properly intersect are neither less nor greater
C13_Witness ==
    /\ ret.op = "CharSpan.__gt__" /\ ret.value = Bool(FALSE)
    /\ call.a = CharSpan(TextAb, 0, 2) /\ call.b = CharSpan(TextAb, 1, 2)

\* a span that is not null and lies within its text
IsInterval(s) ==
    s.begin # NULL_OFFSET_VALUE /\ ValidOffsets(Len(s.text), s.begin, s.end)

\* C14: "<" on the spans over one text is strict: when a.overlaps(b) holds,
\* neither a < b nor a > b does; no span, zero-length ones included, is less
\* than itself.
C14_LessThanIsStrict ==
    (ret.op \in {"CharSpan.__lt__", "CharSpan.__gt__"}
        /\ IsInterval(call.a) /\ IsInterval(call.b)
        /\ SpanOverlaps(call.a, call.b)) =>
        ret.value = Bool(FALSE)

\* the two intervals share at least one character
ProperlyIntersect(a, b) == Max({a.begin, b.begin}) < Min({a.end, b.end})

C16_TakeFills ==
    (ret.op = "take" /\ call.allow_fill
        /\ \A k \in 1..Len(call.indices) :
              call.indices[k] >= -1
              /\ call.indices[k] < Len(Begin(heap, mem, A))) =>
        LET v == call.fill_value
            isnull == v = None \/ v.kind = "nan"
        IN  IF isnull \/ v.kind = "CharSpan"
            THEN /\ ret.raised = ""
                 /\ ret.value.text = heap[A].text
                 /\ Len(ret.value.begin) = Len(call.indices)
                 /\ Len(ret.value.end) = Len(call.indices)
                 /\ \A k \in 1..Len(call.indices) :
                       IF call.indices[k] = -1
                       THEN /\ ret.value.begin[k] =
                                 (IF isnull THEN NULL_OFFSET_VALUE ELSE v.begin)
                            /\ ret.value.end[k] =
                                 (IF isnull THEN NULL_OFFSET_VALUE ELSE v.end)
                       ELSE /\ ret.value.begin[k] =
                                 Begin(heap, mem, A)[call.indices[k] + 1]
                            /\ ret.value.end[k] =
                                 End(heap, mem, A)[call.indices[k] + 1]
            ELSE ret.raised # ""

\* C17: for every array a of length n and every k in 0..n, the concatenation
\* r of a[0:k] and a[k:n] has a's target text and a's begins and ends in a's
\* order, null elements included, and r.equals(a) is true.
C17_ConcatOfSlicesEqualsArray ==
    /\ ret.op = "_concat_same_type" =>
          /\ ret.raised = ""
          /\ SameSpans(NewId, A)
    /\ (ret.op = "equals" /\ NewId \in {ret.self, ret.other}) =>
          /\ ret.raised = ""
          /\ ret.value = Bool(TRUE)

\* C18: concatenation raises whenever its inputs do not share one target
\* text, and building an array from a sequence of spans raises whenever two of
\* the spans differ in target text; a result that is returned has the inputs'
\* text and holds their offsets in input order.
C18_NoMixedTexts ==
    /\ ret.op = "_concat_same_type" =>
          /\ heap[ret.self].text # heap[ret.other].text => ret.raised # ""
          /\ ret.raised = "" =>
                /\ ret.value.text = heap[ret.self].text
                /\ ret.value.text = heap[ret.other].text
                /\ ret.value.begin = Begin(heap, mem, ret.self)
                                        \o Begin(heap, mem, ret.other)
                /\ ret.value.end = End(heap, mem, ret.self)
                                      \o End(heap, mem, ret.other)
    /\ ret.op = "_from_sequence" =>
          LET s == call.scalars
              spans == {i \in 1..Len(s) : s[i].kind = "CharSpan"}
          IN  /\ (\E i \in spans, j \in spans : s[i].text # s[j].text)
                    => ret.raised # ""
              /\ ret.raised = "" =>
                    /\ spans = 1..Len(s)
                    /\ Len(ret.value.begin) = Len(s)
                    /\ Len(ret.value.end) = Len(s)
                    /\ \A i \in spans :
                          /\ ret.value.text = s[i].text
                          /\ ret.value.begin[i] = s[i].begin
                          /\ ret.value.end[i] = s[i].end

\* a concatenation of arrays over two texts that raised
C18_Witness ==
    /\ ret.op = "_concat_same_type" /\ ret.raised = "ValueError"
    /\ ret.self = A /\ ret.other = B
    /\ heap[A].text = TextAb /\ heap[B].text = TextAbC
    /\ Begin(heap, mem, A) = Begin(heap, mem, B)

\* what set_item on another array must leave alone: offsets, version,
\* equivalence cache and hash
Observed(h, m, x) ==
    <<Begin(h, m, x), End(h, m, x), h[x].version, h[x].equivalent_arrays,
      h[x].equiv_array_versions, h[x].hash>>

\* C19: after c = a.copy(), c has a's text and offsets and a version counter
\* of its own that starts at 0, and c.equals(a) is true; a later set_item on c
\* leaves a's begins, ends, version, equivalence cache and hash unchanged,
\* and a later set_item on a leaves c's unchanged.
C19_CopyIsIndependent ==
    [][/\ ret'.op = "copy" =>
             /\ heap'[NewId].version = 0
             /\ heap'[NewId].text = heap[A].text
             /\ Begin(heap', mem', NewId) = Begin(heap, mem, A)
             /\ End(heap', mem', NewId) = End(heap, mem, A)
             /\ Observed(heap', mem', A) = Observed(heap, mem, A)
       /\ (ret.op = "copy" /\ ret'.op = "equals") => ret'.value = Bool(TRUE)
       /\ (ret'.op = "__setitem__" /\ IsLive(heap, NewId)) =>
             /\ ret'.self = NewId =>
                   Observed(heap', mem', A) = Observed(heap, mem, A)
             /\ ret'.self = A =>
                   Observed(heap', mem', NewId) = Observed(heap, mem, NewId)]_vars

\* a set_item went through on the copy of an array that had been changed and
\* hashed before it was copied and that the copy was compared with
C19_Witness ==
    /\ ret.op = "__setitem__" /\ ret.raised = "" /\ ret.self = NewId
    /\ heap[NewId].version = 1
    /\ heap[A].version = 1
    /\ heap[A].hash # None
    /\ heap[A].equivalent_arrays = <<NewId>>
    /\ Begin(heap, mem, A) # Begin(heap, mem, NewId)

\* element i of array x is the null pair
IsNullPair(x, i) ==
    /\ Begin(heap, mem, x)[i] = NULL_OFFSET_VALUE
    /\ End(heap, mem, x)[i] = NULL_OFFSET_VALUE

\* element i of array x is an interval within the array's text
IsSpanAt(x, i) ==
    /\ Begin(heap, mem, x)[i] # NULL_OFFSET_VALUE
    /\ ValidOffsets(Len(heap[x].text), Begin(heap, mem, x)[i],
                    End(heap, mem, x)[i])

\* C20: the sum reduction and combine_agg over an array with at least one
\* null span and at least one span that is not null raise instead of
\* returning a span; over an array whose elements are all null they return
\* the null span.
C20_ReductionsDoNotSkipNulls ==
    ((ret.op = "_reduce" /\ ret.name = "sum") \/ ret.op = "combine_agg")
        /\ ret.self = A =>
        LET n == Len(Begin(heap, mem, A))
        IN  /\ Len(End(heap, mem, A)) = n
               /\ (\E i \in 1..n : IsNullPair(A, i))
               /\ (\E i \in 1..n : IsSpanAt(A, i))
               => ret.raised # ""
            /\ Len(End(heap, mem, A)) = n
               /\ (\A i \in 1..n : IsNullPair(A, i))
               => /\ ret.raised = ""
                  /\ ret.value = CharSpan(heap[A].text, NULL_OFFSET_VALUE,
                                          NULL_OFFSET_VALUE)

\* the sum of a null span and [0, 2) raised
C20_Witness ==
    /\ ret.op = "_reduce" /\ ret.name = "sum" /\ ret.raised = "ValueError"
    /\ Begin(heap, mem, A) = <<-1, 0>>
    /\ End(heap, mem, A) = <<-1, 2>>

RECURSIVE LemmasOfTokens(_, _, _)
\* the lemmas of tokens b .. e-1, a single space between neighbours
LemmasOfTokens(lemma_col, b, e) ==
    IF e <= b THEN <<>>
    ELSE IF e = b + 1 THEN lemma_col[e]
    ELSE LemmasOfTokens(lemma_col, b, e - 1) \o <<" ">> \o lemma_col[e]

\* C21: lemmatize returns one string per input span, in input order; entry i
\* is the lemmas of tokens begin_token[i] .. end_token[i]-1 joined by single
\* spaces, the empty string when span i covers no token.
C21_LemmatizeJoinsLemmas ==
    (call.fn = "lemmatize" /\ ret # NoRet)
    => /\ ret.raised = ""
       /\ Len(ret.value.items) = Len(call.spans)
       /\ \A i \in 1..Len(call.spans) :
             LET s == call.spans[i]
             IN  /\ ret.value.items[i] =
                       LemmasOfTokens(call.token_features, s.begin_token,
                                      s.end_token)
                 /\ (s.begin_token = s.end_token => ret.value.items[i] = <<>>)

\* lemmatize has returned for a span of several tokens after a span of none
C21_Witness ==
    /\ call.fn = "lemmatize"
    /\ ret # NoRet
    /\ Len(call.spans) = 2
    /\ call.spans[1].begin_token = call.spans[1].end_token
    /\ call.spans[2].end_token >= call.spans[2].begin_token + 2
    /\ ret.value.items[1] = <<>>
    /\ Len(ret.value.items[2]) >= 3

\* C22: extract_dict, extract_regex_tok, adjacent_join, combine_spans,
\* combine_agg and lemmatize leave the target text, the begin and end offsets
\* and the version of every input span column, and the dictionary and
\* token-feature tables, as they were, when they return and when they raise.
C22_AlgebraLeavesInputsAlone ==
    [][/\ call' = call
       /\ \A x \in ObjIds :
             IsLive(heap, x)
             => /\ IsLive(heap', x)
                /\ heap'[x].text = heap[x].text
                /\ Begin(heap', mem', x) = Begin(heap, mem, x)
                /\ End(heap', mem', x) = End(heap, mem, x)
                /\ heap'[x].version = heap[x].version]_vars

\* extract_dict has returned and memoized the normalized text of its tokens,
\* whose version is still the initial one
C22_Witness ==
    /\ ret.op = "extract_dict"
    /\ ret.raised = ""
    /\ heap[TOKENS].normalized_covered_text # None
    /\ heap[TOKENS].version = 0

\* C23: for a non-null CharSpan over text t, context(num_chars) returns
\* before + "[" + covered_text + "]" + after: before is the
\* min(begin, num_chars) characters of t just before begin, after the
\* min(len(t) - end, num_chars) characters just after end, and "..." is put
\* on a side exactly when t has more characters on that side than are shown.
C23_ContextShowsBothSides ==
    (call.fn = "context" /\ ret # NoRet
        /\ 0 <= call.self.begin /\ call.self.begin <= call.self.end
        /\ call.self.end <= Len(call.self.text))
    => LET t == call.self.text
           b == call.self.begin
           e == call.self.end
           n == call.num_chars
           nb == Min({b, n})
           na == Min({Len(t) - e, n})
       IN  /\ ret.raised = ""
           /\ ret.value.v =
                 (IF b > nb THEN <<".", ".", ".">> ELSE <<>>)
                 \o SubSeq(t, b - nb + 1, b)
                 \o <<"[">> \o SubSeq(t, b + 1, e) \o <<"]">>
                 \o SubSeq(t, e + 1, e + na)
                 \o (IF Len(t) - e > na THEN <<".", ".", ".">> ELSE <<>>)

\* C24: set_item on an array s obtained as s = a[i:j] leaves a's begins and
\* ends unchanged, so the contents of a change only through set_item on a.
C24_SliceSetItemLeavesSourceAlone ==
    [][\A key \in SetKeys, value \in SetValues :
          SetItem(NewId, key, value)
          => /\ Begin(heap', mem', A) = Begin(heap, mem, A)
             /\ End(heap', mem', A) = End(heap, mem, A)]_vars

\* C25: for arrays a and b of equal length, a == b is a mask whose entry i is
\* True exactly when a and b have the same target text and a.begin[i] ==
\* b.begin[i] and a.end[i] == b.end[i]; arrays of different lengths raise.
C25_EqComparesRowByRow ==
    ret.op = "__eq__"
    => LET a == ret.self
           b == ret.other
           n == Len(Begin(heap, mem, a))
       IN  IF n # Len(Begin(heap, mem, b))
           THEN ret.raised # ""
           ELSE /\ ret.raised = ""
                /\ Len(ret.value.v) = n
                /\ \A i \in 1..n :
                      ret.value.v[i] =
                         (/\ heap[a].text = heap[b].text
                          /\ Begin(heap, mem, a)[i] = Begin(heap, mem, b)[i]
                          /\ End(heap, mem, a)[i] = End(heap, mem, b)[i])

\* C26: an entry that a.equals(b) put into a's equivalence cache answers
\* equals for that same array b only: for an array c with other contents,
\* constructed after b was discarded (with b's identity or another, at
\* version 0), a.equals(c) returns False.
C26_CacheEntryIsForOneArray ==
    (/\ ret.op = "equals"
     /\ ret.self = A
     /\ ret.other # A
     /\ IsLive(heap, ret.other)
     /\ ~SameSpans(A, ret.other))
    => ret.value = Bool(FALSE)

\* C27: when two threads call a.equals(b) at once, with no set_item on a or b
\* while they run, both calls finish without raising and return whether a and
\* b have the same text and offsets, and a's two cache lists end with equal
\* lengths.
C27_ConcurrentEqualsIsSafe ==
    (call.fn = "equals" /\ \A t \in Threads : call.threads[t].pc = "done")
    => /\ \A t \in Threads :
             /\ call.threads[t].raised = ""
             /\ call.threads[t].value = Bool(SameSpans(A, B))
       /\ Len(heap[A].equivalent_arrays) = Len(heap[A].equiv_array_versions)

\* the dictionary rows of exactly len tokens that match the normalized text
\* of tokens b .. b+len-1
RowsMatching(entries, b, len) ==
    {d \in 1..Len(entries) : Len(entries[d]) = len /\ EntryMatchesAt(entries, d, b)}

\* C28: every span [b, e) extract_dict emits over n tokens has 0 <= b < e <= n
\* and some dictionary row of exactly e-b tokens whose j-th token is the
\* normalized text of token b+j; a partial match that runs past the last
\* token emits nothing, and a row emits at most once at a start token, at
\* its own length.
C28_ExtractDictEmitsOnlyMatches ==
    (ret.op = "extract_dict" /\ ret.raised = "")
    => \A k \in 1..Len(ret.value.spans) :
          LET b == ret.value.spans[k].begin_token
              e == ret.value.spans[k].end_token
          IN  /\ 0 <= b /\ b < e /\ e <= heap[TOKENS].begins.n
              /\ RowsMatching(call.entries, b, e - b) # {}
              /\ RowCount(ret.value.spans, ret.value.spans[k])
                    <= Cardinality(RowsMatching(call.entries, b, e - b))

\* extract_dict emitted a match of two tokens that end the text while a
\* longer row had matched those same tokens and found no next token
C28_Witness ==
    /\ ret.op = "extract_dict"
    /\ ret.raised = ""
    /\ LET n == heap[TOKENS].begins.n
       IN  /\ n >= 2
           /\ \E k \in 1..Len(ret.value.spans) :
                 ret.value.spans[k] = TokenSpan(n - 2, n)
           /\ \E d \in 1..Len(call.entries) :
                 /\ Len(call.entries[d]) = 3
                 /\ EntryMatchesAt(<<SubSeq(call.entries[d], 1, 2)>>, 1, n - 2)

\* C29: for spans a and b over one text with b of zero length and
\* a.contains(b) true, a.overlaps(b) is true, also when b sits at a's begin
\* or at a's end.
C29_ContainedEmptySpanOverlaps ==
    (/\ ret.op = "CharSpan.overlaps"
     /\ IsInterval(call.a) /\ IsInterval(call.b)
     /\ call.b.begin = call.b.end
     /\ Contains(call.a, call.b))
    => ret.value = Bool(TRUE)

\* C30: with min_gap <= max_gap, adjacent_join returns each pair of a row of
\* the first series and a row of the second series at most once, although
\* the second series is replicated once per gap; the result has at most
\* len(first) * len(second) rows.
C30_AdjacentJoinPairsOnce ==
    (ret.op = "adjacent_join" /\ call.min_gap <= call.max_gap)
    => /\ ret.raised = ""
       /\ \A k, l \in 1..Len(ret.value.rows) :
             ret.value.rows[k] = ret.value.rows[l] => k = l
       /\ Len(ret.value.rows)
             <= Len(call.first_series) * Len(call.second_series)

\* a join over several gap values returned more than one pair
C30_Witness ==
    /\ ret.op = "adjacent_join"
    /\ ret.raised = ""
    /\ call.max_gap > call.min_gap
    /\ Len(call.second_series) = 2
    /\ Len(ret.value.rows) >= 2

====
